---------------------------- MODULE Spec2Model ----------------------------
(***************************************************************************)
(* Rush Hour Snow: the road network, the A* route planner, the snow        *)
(* layer, the traffic controller and the dispatch controller, modelled as  *)
(* a tick-driven state machine.                                            *)
(*                                                                         *)
(* Fixed-point units (the program computes in IEEE doubles):               *)
(*   time      1/TimeDen ms         (a 60 Hz frame is 50 units)            *)
(*   snow      1/SnowScale units    (0.3 units/s is 1 per 10 time units)   *)
(*   length    1/DistScale px                                              *)
(*   progress  1/ProgScale of a segment                                    *)
(***************************************************************************)
EXTENDS Integers, Sequences, FiniteSets, TLC

TimeDen == 3
SnowScale == 1000
DistScale == 10
ProgScale == 1000

Min2(a, b) == IF a < b THEN a ELSE b
Max2(a, b) == IF a > b THEN a ELSE b

\* Math.sqrt on the fixed-point grid: the largest r with r * r <= n.
RECURSIVE SqrtSearch(_, _, _)
SqrtSearch(n, lo, hi) ==
  IF lo >= hi THEN lo
  ELSE LET mid == (lo + hi + 1) \div 2
       IN IF mid * mid <= n THEN SqrtSearch(n, mid, hi)
          ELSE SqrtSearch(n, lo, mid - 1)

ISqrt(n) == SqrtSearch(n, 0, 46340)

NoEdge == "null"

(***************************************************************************)
(* data/RoadNetwork.ts                                                     *)
(***************************************************************************)

EmptyFcn == [x \in {} |-> x]

EmptyNetwork == [nodes |-> EmptyFcn, edges |-> EmptyFcn, adjacency |-> EmptyFcn]

SetNode(net, id, x, y, type) ==
  [net EXCEPT !.nodes = (id :> [x |-> x, y |-> y, type |-> type]) @@ net.nodes]

\* addEdge filing the edge under its from end only.
AddEdgeOneWay(net, id, from, to) ==
  LET adj0 == net.adjacency
      adj1 == IF from \in DOMAIN adj0 THEN adj0 ELSE (from :> <<>>) @@ adj0
      adj3 == [adj1 EXCEPT ![from] = Append(@, id)]
  IN [net EXCEPT
        !.edges = (id :> [from |-> from, to |-> to, snow |-> 0, blocked |-> FALSE])
                  @@ net.edges,
        !.adjacency = adj3]

\* addEdge filing the edge under its to end only.
AddEdgeFarEnd(net, id, from, to) ==
  LET adj0 == net.adjacency
      adj1 == IF to \in DOMAIN adj0 THEN adj0 ELSE (to :> <<>>) @@ adj0
  IN [net EXCEPT
        !.edges = (id :> [from |-> from, to |-> to, snow |-> 0, blocked |-> FALSE])
                  @@ net.edges,
        !.adjacency = [adj1 EXCEPT ![to] = Append(@, id)]]

\* addEdge: the edge starts clear and unblocked and is pushed onto the
\* adjacency list of both of its ends.
AddEdge(net, id, from, to) ==
  LET adj0 == net.adjacency
      adj1 == IF from \in DOMAIN adj0 THEN adj0 ELSE (from :> <<>>) @@ adj0
      adj2 == IF to \in DOMAIN adj1 THEN adj1 ELSE (to :> <<>>) @@ adj1
      adj3 == [adj2 EXCEPT ![from] = Append(@, id)]
      adj4 == [adj3 EXCEPT ![to] = Append(@, id)]
  IN [net EXCEPT
        !.edges = (id :> [from |-> from, to |-> to, snow |-> 0, blocked |-> FALSE])
                  @@ net.edges,
        !.adjacency = adj4]

RECURSIVE AddEdges(_, _)
AddEdges(net, list) ==
  IF list = <<>> THEN net
  ELSE AddEdges(AddEdge(net, list[1][1], list[1][2], list[1][3]), Tail(list))

RECURSIVE SetNodes(_, _)
SetNodes(net, list) ==
  IF list = <<>> THEN net
  ELSE SetNodes(SetNode(net, list[1][1], list[1][2], list[1][3], list[1][4]),
                Tail(list))

centerX == 400
centerY == 280
gridSpacing == 120

DefaultNodes ==
  << <<"NW", centerX - gridSpacing, centerY - gridSpacing, "intersection">>,
     <<"NC", centerX, centerY - gridSpacing, "intersection">>,
     <<"NE", centerX + gridSpacing, centerY - gridSpacing, "intersection">>,
     <<"CW", centerX - gridSpacing, centerY, "intersection">>,
     <<"CC", centerX, centerY, "intersection">>,
     <<"CE", centerX + gridSpacing, centerY, "intersection">>,
     <<"SW", centerX - gridSpacing, centerY + gridSpacing, "intersection">>,
     <<"SC", centerX, centerY + gridSpacing, "intersection">>,
     <<"SE", centerX + gridSpacing, centerY + gridSpacing, "intersection">>,
     <<"north", centerX, centerY - gridSpacing - 100, "endpoint">>,
     <<"south", centerX, centerY + gridSpacing + 100, "endpoint">>,
     <<"east", centerX + gridSpacing + 100, centerY, "endpoint">>,
     <<"west", centerX - gridSpacing - 100, centerY, "endpoint">>,
     <<"depot", centerX, centerY + gridSpacing + 180, "depot">> >>

DefaultEdges ==
  << <<"h-nw-nc", "NW", "NC">>, <<"h-nc-ne", "NC", "NE">>,
     <<"h-cw-cc", "CW", "CC">>, <<"h-cc-ce", "CC", "CE">>,
     <<"h-sw-sc", "SW", "SC">>, <<"h-sc-se", "SC", "SE">>,
     <<"v-nw-cw", "NW", "CW">>, <<"v-cw-sw", "CW", "SW">>,
     <<"v-nc-cc", "NC", "CC">>, <<"v-cc-sc", "CC", "SC">>,
     <<"v-ne-ce", "NE", "CE">>, <<"v-ce-se", "CE", "SE">>,
     <<"d-nw-cc", "NW", "CC">>, <<"d-ne-cc", "NE", "CC">>,
     <<"d-sw-cc", "SW", "CC">>, <<"d-se-cc", "SE", "CC">>,
     <<"ep-north", "north", "NC">>, <<"ep-south", "south", "SC">>,
     <<"ep-east", "east", "CE">>, <<"ep-west", "west", "CW">>,
     <<"depot-road", "depot", "south">> >>

createDefaultNetwork == AddEdges(SetNodes(EmptyNetwork, DefaultNodes), DefaultEdges)

getOtherNode(edge, nodeId) == IF edge.from = nodeId THEN edge.to ELSE edge.from

\* network.adjacency.get(nodeId) || []
AdjacencyOf(net, nodeId) ==
  IF nodeId \in DOMAIN net.adjacency THEN net.adjacency[nodeId] ELSE <<>>

(***************************************************************************)
(* systems/PathFinding.ts                                                  *)
(***************************************************************************)

\* heuristic and distance are the same Euclidean distance.
distance(x1, y1, x2, y2) ==
  ISqrt(DistScale * DistScale * ((x2 - x1) * (x2 - x1) + (y2 - y1) * (y2 - y1)))

\* A heuristic that is not admissible.
heuristicTripled(x1, y1, x2, y2) == 3 * distance(x1, y1, x2, y2)

heuristic(x1, y1, x2, y2) == distance(x1, y1, x2, y2)

DefaultOptions == [ignoreBlocked |-> FALSE, ignoreSnow |-> FALSE]
IgnoreAll == [ignoreBlocked |-> TRUE, ignoreSnow |-> TRUE]
\* The legacy boolean argument read as standing for both options.
LegacyOptionsBoth(b) == [ignoreBlocked |-> b, ignoreSnow |-> b]

\* The legacy boolean argument: { ignoreBlocked: options }.
LegacyOptions(b) == [ignoreBlocked |-> b, ignoreSnow |-> FALSE]

\* Math.min(edge.snow * 0.5, 5) * 10, in length units.
snowPenalty(edge, opts) ==
  IF opts.ignoreSnow THEN 0
  ELSE (Min2((edge.snow * 5) \div 10, 5 * SnowScale) * 10 * DistScale) \div SnowScale

edgeCost(net, edge, fromId, toId, opts) ==
  distance(net.nodes[fromId].x, net.nodes[fromId].y,
           net.nodes[toId].x, net.nodes[toId].y) + snowPenalty(edge, opts)

\* The open node with the lowest f; the first such in the map's order.
RECURSIVE LowestF(_, _, _)
LowestF(open, i, best) ==
  IF i > Len(open) THEN best
  ELSE LowestF(open, i + 1, IF open[i].f < open[best].f THEN i ELSE best)

OpenIndex(open, nodeId) ==
  IF \E i \in 1..Len(open) : open[i].nodeId = nodeId
  THEN CHOOSE i \in 1..Len(open) : open[i].nodeId = nodeId
  ELSE 0

\* Map.set: a present key keeps its place, a new key goes last.
OpenSet(open, pathNode) ==
  LET i == OpenIndex(open, pathNode.nodeId)
  IN IF i = 0 THEN Append(open, pathNode) ELSE [open EXCEPT ![i] = pathNode]

OpenDelete(open, i) == SubSeq(open, 1, i - 1) \o SubSeq(open, i + 1, Len(open))

\* The obstruction test with the option inverted.
skipBlockedInverted(edge, opts) == edge.blocked /\ opts.ignoreBlocked

\* if (edge.blocked && !opts.ignoreBlocked) continue
skipBlocked(edge, opts) == edge.blocked /\ ~opts.ignoreBlocked

\* One pass of the neighbour loop body for edgeId.
ExploreEdge(net, goalId, opts, current, edgeId, open, closed) ==
  LET edge == net.edges[edgeId]
      neighborId == getOtherNode(edge, current.nodeId)
  IN IF skipBlocked(edge, opts) THEN open
     ELSE IF neighborId \in closed THEN open
     ELSE LET neighbor == net.nodes[neighborId]
              goal == net.nodes[goalId]
              tentativeG == current.g
                            + edgeCost(net, edge, current.nodeId, neighborId, opts)
              i == OpenIndex(open, neighborId)
          IN IF i # 0 /\ tentativeG >= open[i].g THEN open
             ELSE LET h == heuristic(neighbor.x, neighbor.y, goal.x, goal.y)
                  IN OpenSet(open, [nodeId |-> neighborId, g |-> tentativeG,
                                    h |-> h, f |-> tentativeG + h,
                                    parent |-> current, edge |-> edgeId])

RECURSIVE ExploreNeighbors(_, _, _, _, _, _, _)
ExploreNeighbors(net, goalId, opts, current, edgeIds, open, closed) ==
  IF edgeIds = <<>> THEN open
  ELSE ExploreNeighbors(net, goalId, opts, current, Tail(edgeIds),
         ExploreEdge(net, goalId, opts, current, Head(edgeIds), open, closed),
         closed)

\* The route collected with push instead of unshift.
RECURSIVE reconstructPathPushed(_)
reconstructPathPushed(node) ==
  IF node.edge = NoEdge THEN <<>>
  ELSE <<node.edge>> \o reconstructPathPushed(node.parent)

RECURSIVE reconstructPath(_)
reconstructPath(node) ==
  IF node.edge = NoEdge THEN <<>>
  ELSE Append(reconstructPath(node.parent), node.edge)

NoPath(n) == [found |-> FALSE, path |-> <<>>, iterations |-> n]

\* The while loop; iterations counts the nodes taken from the open set.
RECURSIVE SearchLoop(_, _, _, _, _, _)
SearchLoop(net, goalId, opts, open, closed, n) ==
  IF Len(open) = 0 THEN NoPath(n)
  ELSE LET ci == LowestF(open, 2, 1)
           current == open[ci]
       IN IF current.nodeId = goalId
          THEN [found |-> TRUE, path |-> reconstructPath(current), iterations |-> n]
          ELSE SearchLoop(net, goalId, opts,
                 ExploreNeighbors(net, goalId, opts, current,
                                  AdjacencyOf(net, current.nodeId),
                                  OpenDelete(open, ci),
                                  closed \cup {current.nodeId}),
                 closed \cup {current.nodeId}, n + 1)

findPath(net, startNodeId, goalNodeId, opts) ==
  IF startNodeId \notin DOMAIN net.nodes \/ goalNodeId \notin DOMAIN net.nodes
  THEN NoPath(0)
  ELSE LET start == net.nodes[startNodeId]
           goal == net.nodes[goalNodeId]
           h0 == heuristic(start.x, start.y, goal.x, goal.y)
           startNode == [nodeId |-> startNodeId, g |-> 0, h |-> h0, f |-> h0,
                         parent |-> NoEdge, edge |-> NoEdge]
       IN SearchLoop(net, goalNodeId, opts, <<startNode>>, {}, 0)


(***************************************************************************)
(* config/Theme.ts                                                         *)
(***************************************************************************)
TIMING == [PLOW_COOLDOWN |-> 2000 * TimeDen]

SPEEDS == [PLOW |-> 150, TOW_TRUCK |-> 120]

(***************************************************************************)
(* systems/SnowSystem.ts (not in the source tree: from ROBOTS.md and the   *)
(* SnowLayer section of the specification)                                 *)
(***************************************************************************)
SNOW_LEVELS == [CLEAR |-> 2 * SnowScale, LIGHT |-> 5 * SnowScale,
                MODERATE |-> 8 * SnowScale, DEEP |-> 9 * SnowScale]

\* 0.3 units per second at intensity 1.0.
accumulationRate == (3 * SnowScale) \div 10

\* The cyclic storm schedule: durations in time units, intensity in tenths.
StormPhases ==
  << [duration |-> 40000 * TimeDen, intensity |-> 10],
     [duration |-> 20000 * TimeDen, intensity |-> 20],
     [duration |-> 20000 * TimeDen, intensity |-> 5] >>

\* The phase timer: past the phase's duration it is reset and the next phase
\* (wrapping) becomes current.
advanceStorm(st, d) ==
  IF st.timer + d > StormPhases[st.index].duration
  THEN [index |-> (st.index % Len(StormPhases)) + 1, timer |-> 0]
  ELSE [st EXCEPT !.timer = @ + d]

currentIntensity(st) == StormPhases[st.index].intensity

\* baseRate * intensity * elapsedSeconds, in snow units.
accumulated(st, d) == (accumulationRate * currentIntensity(st) * d) \div (10 * 1000 * TimeDen)

\* Accumulation that stops at the top of the 0-10 scale.
accumulateCapped(net, amount) ==
  [net EXCEPT !.edges =
     [e \in DOMAIN net.edges |->
        IF e = "depot-road" THEN net.edges[e]
        ELSE [net.edges[e] EXCEPT !.snow = Min2(10 * SnowScale, @ + amount)]]]

\* Accumulation with no segment exempt.
accumulateEverywhere(net, amount) ==
  [net EXCEPT !.edges =
     [e \in DOMAIN net.edges |-> [net.edges[e] EXCEPT !.snow = @ + amount]]]

\* Every segment but depot-road accumulates.
accumulate(net, amount) ==
  [net EXCEPT !.edges =
     [e \in DOMAIN net.edges |->
        IF e = "depot-road" THEN net.edges[e]
        ELSE [net.edges[e] EXCEPT !.snow = @ + amount]]]

\* clearSnow: the accumulation decreases by amount, clamped at 0.
clearSnow(net, edgeId, amount) ==
  IF edgeId \in DOMAIN net.edges
  THEN [net EXCEPT !.edges[edgeId].snow = Max2(0, @ - amount)]
  ELSE net

(***************************************************************************)
(* systems/TrafficSystem.ts                                                *)
(***************************************************************************)
spawnInterval == 3000 * TimeDen

endpoints == <<"north", "south", "east", "west">>

NoCar == -1

\* Map iteration order is insertion order, which is ascending id.
RECURSIVE Ascending(_)
Ascending(S) ==
  IF S = {} THEN <<>>
  ELSE LET m == CHOOSE x \in S : \A y \in S : x <= y
       IN <<m>> \o Ascending(S \ {m})

Without(f, id) == [x \in (DOMAIN f) \ {id} |-> f[x]]

With(f, id, v) == [x \in (DOMAIN f) \cup {id} |-> IF x = id THEN v ELSE f[x]]

\* trySpawnCar with the three random draws given.
\* trySpawnCar without the look at what the planner returned.
trySpawnCarUnrouted(net, cs, nid, start, end, speed) ==
  LET r == findPath(net, start, end, LegacyOptions(FALSE))
  IN [cars |-> With(cs, nid,
                    [id |-> nid, currentNodeId |-> start, destinationNodeId |-> end,
                     path |-> r.path, pathIndex |-> 0, progress |-> 0,
                     speed |-> speed, stuck |-> FALSE, stuckTime |-> 0,
                     waiting |-> FALSE, rerouteCheckTimer |-> 60]),
      nextCarId |-> nid + 1]

trySpawnCar(net, cs, nid, start, end, speed) ==
  LET r == findPath(net, start, end, LegacyOptions(FALSE))
  IN IF ~r.found \/ Len(r.path) = 0 THEN [cars |-> cs, nextCarId |-> nid]
     ELSE [cars |-> With(cs, nid,
                      [id |-> nid, currentNodeId |-> start, destinationNodeId |-> end,
                       path |-> r.path, pathIndex |-> 0, progress |-> 0,
                       speed |-> speed, stuck |-> FALSE, stuckTime |-> 0,
                       waiting |-> FALSE, rerouteCheckTimer |-> 60]),
           nextCarId |-> nid + 1]

\* removeCar that counts without taking the car out of the population.
removeCarKept(cs, st, carId, reason) ==
  IF carId \in DOMAIN cs
  THEN [cars |-> cs,
        stats |-> [st EXCEPT ![reason] = @ + 1]]
  ELSE [cars |-> cs, stats |-> st]

removeCar(cs, st, carId, reason) ==
  IF carId \in DOMAIN cs
  THEN [cars |-> Without(cs, carId),
        stats |-> [st EXCEPT ![reason] = @ + 1]]
  ELSE [cars |-> cs, stats |-> st]

setCarStuck(cs, carId, stuck) ==
  IF carId \in DOMAIN cs
  THEN [cs EXCEPT ![carId] = [@ EXCEPT !.stuck = stuck,
                                       !.stuckTime = IF stuck THEN @ ELSE 0]]
  ELSE cs

\* getCurrentEdge of a car, a plow or a tow truck.
getCurrentEdge(agent) ==
  IF agent.pathIndex >= Len(agent.path) THEN NoEdge
  ELSE agent.path[agent.pathIndex + 1]

\* The cars ahead on the edge whatever their direction, the position of an
\* oncoming car flipped (getCarsBlockingOn, unnamed/part_000 260-292).
getCarsAheadAnyLane(cs, car) ==
  LET edge == getCurrentEdge(car)
  IN IF edge = NoEdge THEN {}
     ELSE {o \in DOMAIN cs :
             /\ o # car.id
             /\ getCurrentEdge(cs[o]) = edge
             /\ (IF cs[o].currentNodeId = car.currentNodeId
                 THEN cs[o].progress ELSE ProgScale - cs[o].progress) > car.progress}

\* getCarsAheadInLane counting a car level with this one as ahead of it.
getCarsAheadOrLevel(cs, car) ==
  LET edge == getCurrentEdge(car)
  IN IF edge = NoEdge THEN {}
     ELSE {o \in DOMAIN cs :
             /\ o # car.id
             /\ getCurrentEdge(cs[o]) = edge
             /\ cs[o].currentNodeId = car.currentNodeId
             /\ cs[o].progress >= car.progress}

\* The ids of the cars ahead in the same lane.
getCarsAheadInLane(cs, car) ==
  LET edge == getCurrentEdge(car)
  IN IF edge = NoEdge THEN {}
     ELSE {o \in DOMAIN cs :
             /\ o # car.id
             /\ getCurrentEdge(cs[o]) = edge
             /\ cs[o].currentNodeId = car.currentNodeId
             /\ cs[o].progress > car.progress}

\* ahead[0] after the stable sort by distance.
NearestAhead(cs, car) ==
  LET ahead == getCarsAheadInLane(cs, car)
      near == {o \in ahead : \A q \in ahead : cs[o].progress <= cs[q].progress}
  IN CHOOSE o \in near : \A q \in near : o <= q

\* isBlockedByCarAhead judging every car ahead as free to move.
isBlockedByCarAheadLax(cs, car) == NoCar

isBlockedByCarAhead(cs, car) ==
  IF getCarsAheadInLane(cs, car) = {} THEN NoCar
  ELSE LET nearest == NearestAhead(cs, car)
           dist == cs[nearest].progress - car.progress
       IN IF dist < (12 * ProgScale) \div 100
             /\ (cs[nearest].stuck \/ cs[nearest].waiting)
          THEN nearest
          ELSE IF dist < (8 * ProgScale) \div 100 THEN nearest
          ELSE NoCar

\* Twice the cost: 1 + snow * 0.5 per edge, and 100 for a blocked one.
RECURSIVE calculatePathCost(_, _)
calculatePathCost(net, path) ==
  IF path = <<>> THEN 0
  ELSE LET edge == net.edges[Head(path)]
       IN 2 * SnowScale + edge.snow
          + (IF edge.blocked THEN 200 * SnowScale ELSE 0)
          + calculatePathCost(net, Tail(path))

\* Lines 319-336 without the comparison of costs: a route found is taken.
adoptIfFound(net, car, newPath) ==
  IF ~newPath.found \/ Len(newPath.path) = 0 THEN car
  ELSE [car EXCEPT !.path = newPath.path, !.pathIndex = 0, !.progress = 0]

\* Lines 319-336: the new route is taken when it costs less than 80 % of
\* what is left of the old one.
adoptIfBetter(net, car, newPath) ==
  IF ~newPath.found \/ Len(newPath.path) = 0 THEN car
  ELSE IF 10 * calculatePathCost(net, newPath.path)
          < 8 * calculatePathCost(net, SubSeq(car.path, car.pathIndex + 1, Len(car.path)))
       THEN [car EXCEPT !.path = newPath.path, !.pathIndex = 0, !.progress = 0]
       ELSE car

\* Lines 308-320 without the look at the car's progress.
rerouteCheckAnywhere(net, car) ==
  IF car.stuck THEN car
  ELSE IF getCurrentEdge(car) = NoEdge THEN car
  ELSE IF ~(net.edges[getCurrentEdge(car)].snow > 8 * SnowScale
            \/ net.edges[getCurrentEdge(car)].blocked) THEN car
  ELSE adoptIfBetter(net, car,
         findPath(net, car.currentNodeId, car.destinationNodeId, LegacyOptions(FALSE)))

\* Lines 308-320, the countdown having run out and been reset.
rerouteCheck(net, car) ==
  IF car.stuck \/ car.progress > ProgScale \div 10 THEN car
  ELSE IF getCurrentEdge(car) = NoEdge THEN car
  ELSE IF ~(net.edges[getCurrentEdge(car)].snow > 8 * SnowScale
            \/ net.edges[getCurrentEdge(car)].blocked) THEN car
  ELSE adoptIfBetter(net, car,
         findPath(net, car.currentNodeId, car.destinationNodeId, LegacyOptions(FALSE)))

\* tryReroute with the countdown set to 30 after a check.
tryRerouteSooner(net, car) ==
  IF car.rerouteCheckTimer - 1 > 0 THEN [car EXCEPT !.rerouteCheckTimer = @ - 1]
  ELSE rerouteCheck(net, [car EXCEPT !.rerouteCheckTimer = 30])

tryReroute(net, car) ==
  IF car.rerouteCheckTimer - 1 > 0 THEN [car EXCEPT !.rerouteCheckTimer = @ - 1]
  ELSE rerouteCheck(net, [car EXCEPT !.rerouteCheckTimer = 60])

(***************************************************************************)
(* scenes/GameScene.ts                                                     *)
(***************************************************************************)
getEdgeLength(net, edgeId) ==
  distance(net.nodes[net.edges[edgeId].from].x, net.nodes[net.edges[edgeId].from].y,
           net.nodes[net.edges[edgeId].to].x, net.nodes[net.edges[edgeId].to].y)

\* progress + speed * deltaSeconds / edgeLength, speed in tenths of px/s.
Advanced(net, edgeId, progress, speed10, d) ==
  progress + (speed10 * d) \div (TimeDen * getEdgeLength(net, edgeId))

\* The rollover that leaves the current node as it was.
MovedNoTurn(net, edgeId, agent, speed10, d) ==
  LET p == Advanced(net, edgeId, agent.progress, speed10, d)
  IN IF p >= ProgScale
     THEN [agent EXCEPT !.progress = 0, !.pathIndex = @ + 1]
     ELSE [agent EXCEPT !.progress = p]

\* The rollover that carries what is beyond the end of the edge onto the next.
MovedCarrying(net, edgeId, agent, speed10, d) ==
  LET p == Advanced(net, edgeId, agent.progress, speed10, d)
  IN IF p >= ProgScale
     THEN [agent EXCEPT !.currentNodeId = getOtherNode(net.edges[edgeId], @),
                        !.progress = p - ProgScale, !.pathIndex = @ + 1]
     ELSE [agent EXCEPT !.progress = p]

\* The rollover at the end of the edge.
Moved(net, edgeId, agent, speed10, d) ==
  LET p == Advanced(net, edgeId, agent.progress, speed10, d)
  IN IF p >= ProgScale
     THEN [agent EXCEPT !.currentNodeId = getOtherNode(net.edges[edgeId], @),
                        !.progress = 0, !.pathIndex = @ + 1]
     ELSE [agent EXCEPT !.progress = p]

\* The choice of lines 285-295 turned round: the route with more segments.
LongerPath(pathA, pathB) ==
  IF pathA.found /\ pathB.found
  THEN (IF Len(pathA.path) <= Len(pathB.path) THEN pathB ELSE pathA)
  ELSE IF pathA.found THEN pathA
  ELSE IF pathB.found THEN pathB
  ELSE NoPath(0)

\* The route of the other branch when the planner has none: no segments.
ShorterPathOrNone(pathA, pathB) ==
  IF pathA.found /\ pathB.found
  THEN (IF Len(pathA.path) <= Len(pathB.path) THEN pathA ELSE pathB)
  ELSE IF pathA.found THEN pathA
  ELSE IF pathB.found THEN pathB
  ELSE [found |-> TRUE, path |-> <<>>, iterations |-> 0]

\* Lines 285-295: the route with no more segments than the other.
ShorterPath(pathA, pathB) ==
  IF pathA.found /\ pathB.found
  THEN (IF Len(pathA.path) <= Len(pathB.path) THEN pathA ELSE pathB)
  ELSE IF pathA.found THEN pathA
  ELSE IF pathB.found THEN pathB
  ELSE NoPath(0)

\* The shorter of the routes from the depot to the two ends of the edge.
ApproachPath(net, edgeId) ==
  ShorterPath(findPath(net, "depot", net.edges[edgeId].from, IgnoreAll),
              findPath(net, "depot", net.edges[edgeId].to, IgnoreAll))

\* The plow created without starting the cooldown.
createPlowNoCooldown(pls, npid, cooldown, targetEdge, pathToTarget) ==
  IF ~pathToTarget.found
  THEN [plows |-> pls, nextPlowId |-> npid, plowCooldown |-> cooldown]
  ELSE [plows |-> With(pls, npid,
                    [id |-> npid, path |-> Append(pathToTarget.path, targetEdge),
                     pathIndex |-> 0, progress |-> 0, speed |-> SPEEDS.PLOW,
                     returning |-> FALSE, currentNodeId |-> "depot"]),
        nextPlowId |-> npid + 1,
        plowCooldown |-> cooldown]

\* Lines 297-316 of dispatchPlow.
createPlow(pls, npid, cooldown, targetEdge, pathToTarget) ==
  IF ~pathToTarget.found
  THEN [plows |-> pls, nextPlowId |-> npid, plowCooldown |-> cooldown]
  ELSE [plows |-> With(pls, npid,
                    [id |-> npid, path |-> Append(pathToTarget.path, targetEdge),
                     pathIndex |-> 0, progress |-> 0, speed |-> SPEEDS.PLOW,
                     returning |-> FALSE, currentNodeId |-> "depot"]),
        nextPlowId |-> npid + 1,
        plowCooldown |-> TIMING.PLOW_COOLDOWN]

dispatchPlow(net, pls, npid, cooldown, targetEdge) ==
  IF cooldown > 0 THEN [plows |-> pls, nextPlowId |-> npid, plowCooldown |-> cooldown]
  ELSE createPlow(pls, npid, cooldown, targetEdge, ApproachPath(net, targetEdge))

\* Lines 345-360 of dispatchTowTruck.
createTowTruck(tws, ntid, stuckCar, pathToCar) ==
  IF ~pathToCar.found THEN [towTrucks |-> tws, nextTowTruckId |-> ntid]
  ELSE [towTrucks |-> With(tws, ntid,
           [id |-> ntid, targetCarId |-> stuckCar.id,
            path |-> Append(pathToCar.path, getCurrentEdge(stuckCar)),
            pathIndex |-> 0, progress |-> 0, speed |-> SPEEDS.TOW_TRUCK,
            returning |-> FALSE, currentNodeId |-> "depot", hasCar |-> FALSE]),
        nextTowTruckId |-> ntid + 1]

\* The dispatch that sends no truck.
dispatchTowTruckNever(net, tws, ntid, stuckCar) ==
  [towTrucks |-> tws, nextTowTruckId |-> ntid]

\* dispatchTowTruck without the look for a truck already on its way.
dispatchTowTruckAgain(net, tws, ntid, stuckCar) ==
  IF getCurrentEdge(stuckCar) = NoEdge
  THEN [towTrucks |-> tws, nextTowTruckId |-> ntid]
  ELSE createTowTruck(tws, ntid, stuckCar, ApproachPath(net, getCurrentEdge(stuckCar)))

dispatchTowTruck(net, tws, ntid, stuckCar) ==
  IF \E t \in DOMAIN tws : tws[t].targetCarId = stuckCar.id
  THEN [towTrucks |-> tws, nextTowTruckId |-> ntid]
  ELSE IF getCurrentEdge(stuckCar) = NoEdge
  THEN [towTrucks |-> tws, nextTowTruckId |-> ntid]
  ELSE createTowTruck(tws, ntid, stuckCar, ApproachPath(net, getCurrentEdge(stuckCar)))

\* carData.speed * Math.max(0.2, 1 - currentEdge.snow * 0.08), tenths of px/s.
effectiveSpeed(net, edgeId, speed) ==
  (speed * 10 * Max2(SnowScale \div 5, SnowScale - (net.edges[edgeId].snow * 8) \div 100))
    \div SnowScale

\* The deep-snow test with the boundary excluded.
inDeepSnowStrict(net, edgeId) == net.edges[edgeId].snow > SNOW_LEVELS.DEEP

\* currentEdge.snow >= SNOW_LEVELS.DEEP
inDeepSnow(net, edgeId) == net.edges[edgeId].snow >= SNOW_LEVELS.DEEP

\* The stuck branch left out: a stuck car goes on to the movement code.
haltsStuckNever(car) == FALSE

\* if (carData.stuck) { ...; continue }
haltsStuck(car) == car.stuck

\* Lines 594-608: the car moves along the edge it was on when its update began.
movedCar(net, currentEdge, car, d) ==
  Moved(net, currentEdge, car, effectiveSpeed(net, currentEdge, car.speed), d)

\* Lines 570-612 with the stuck car's countdown run down like a moving car's.
afterStuckCheckCounting(net, cs, st, tw, id, currentEdge, d) ==
  [cars |->
     IF haltsStuck(cs[id])
     THEN [cs EXCEPT ![id] = [@ EXCEPT !.stuckTime = @ + d, !.waiting = FALSE,
                                       !.rerouteCheckTimer =
                                          IF @ - 1 > 0 THEN @ - 1 ELSE 60]]
     ELSE IF isBlockedByCarAhead(cs, cs[id]) # NoCar
     THEN [cs EXCEPT ![id] = [@ EXCEPT !.waiting = TRUE]]
     ELSE [cs EXCEPT ![id] =
             movedCar(net, currentEdge,
                      tryReroute(net, [cs[id] EXCEPT !.waiting = FALSE]), d)],
   stats |-> st,
   towTrucks |-> tw.towTrucks,
   nextTowTruckId |-> tw.nextTowTruckId]

\* The update that lets a stuck car go once its segment is below the deep
\* threshold again.
afterStuckCheckFreeing(net, cs, st, tw, id, currentEdge, d) ==
  [cars |->
     IF haltsStuck(cs[id]) /\ inDeepSnow(net, currentEdge)
     THEN [cs EXCEPT ![id] = [@ EXCEPT !.stuckTime = @ + d, !.waiting = FALSE]]
     ELSE [cs EXCEPT ![id] =
             movedCar(net, currentEdge,
                      [cs[id] EXCEPT !.waiting = FALSE, !.stuck = FALSE,
                                     !.stuckTime = 0], d)],
   stats |-> st,
   towTrucks |-> tw.towTrucks,
   nextTowTruckId |-> tw.nextTowTruckId]

\* Lines 570-612, after the deep-snow check; tw is what dispatchTowTruck left.
afterStuckCheck(net, cs, st, tw, id, currentEdge, d) ==
  [cars |->
     IF haltsStuck(cs[id])
     THEN [cs EXCEPT ![id] = [@ EXCEPT !.stuckTime = @ + d, !.waiting = FALSE]]
     ELSE IF isBlockedByCarAhead(cs, cs[id]) # NoCar
     THEN [cs EXCEPT ![id] = [@ EXCEPT !.waiting = TRUE]]
     ELSE [cs EXCEPT ![id] =
             movedCar(net, currentEdge,
                      tryReroute(net, [cs[id] EXCEPT !.waiting = FALSE]), d)],
   stats |-> st,
   towTrucks |-> tw.towTrucks,
   nextTowTruckId |-> tw.nextTowTruckId]

\* The body of the loop of updateCars for the car id.
updateCar(net, cs, st, tws, ntid, id, d) ==
  IF getCurrentEdge(cs[id]) = NoEdge
  THEN [cars |-> removeCar(cs, st, id, "exited").cars,
        stats |-> removeCar(cs, st, id, "exited").stats,
        towTrucks |-> tws,
        nextTowTruckId |-> ntid]
  ELSE IF inDeepSnow(net, getCurrentEdge(cs[id])) /\ ~cs[id].stuck
  THEN afterStuckCheck(net, setCarStuck(cs, id, TRUE), st,
                       dispatchTowTruck(net, tws, ntid, setCarStuck(cs, id, TRUE)[id]),
                       id, getCurrentEdge(cs[id]), d)
  ELSE afterStuckCheck(net, cs, st, [towTrucks |-> tws, nextTowTruckId |-> ntid],
                       id, getCurrentEdge(cs[id]), d)

\* A stuck car anywhere on the plow's edge counted as blocking.
blockedByStuckCarAnywhere(cs, data, currentEdge) ==
  \E c \in DOMAIN cs : cs[c].stuck /\ getCurrentEdge(cs[c]) = currentEdge

\* A stuck car on the plow's edge, ahead of it and within 0.3.
blockedByStuckCar(cs, data, currentEdge) ==
  \E c \in DOMAIN cs :
    /\ cs[c].stuck
    /\ getCurrentEdge(cs[c]) = currentEdge
    /\ LET carPosOnEdge == IF cs[c].currentNodeId = data.currentNodeId
                           THEN cs[c].progress ELSE ProgScale - cs[c].progress
       IN /\ carPosOnEdge > data.progress
          /\ carPosOnEdge - data.progress < (3 * ProgScale) \div 10

\* 15 * deltaSeconds, in snow units.
plowClearAmount(d) == (15 * SnowScale * d) \div (1000 * TimeDen)

\* The plow's clearing with the sign of the amount turned round.
plowClearAdds(net, edgeId, d) ==
  [net EXCEPT !.edges[edgeId].snow = @ + plowClearAmount(d)]

\* The plow's clearing written as a bare subtraction.
plowClearUnclamped(net, edgeId, d) ==
  [net EXCEPT !.edges[edgeId].snow = @ - plowClearAmount(d)]

\* this.snowSystem.clearSnow(currentEdge.id, 15 * deltaSeconds)
plowClear(net, edgeId, d) == clearSnow(net, edgeId, plowClearAmount(d))

\* Lines 632-642: the plow turns for home, or is given up.
\* getPositionOnPath, lines 162-181: the ends of the current segment as the
\* drawing code infers them; the position is interpolated from the first to
\* the second.  The hint currentStartNodeId is always passed by the callers.
getPositionOnPath(net, path, pathIndex, currentStartNodeId) ==
  LET edge == net.edges[path[pathIndex + 1]]
      fromNodeId ==
        IF pathIndex = 0
        THEN currentStartNodeId
        ELSE LET prevEdge == net.edges[path[pathIndex]]
             IN IF edge.from = prevEdge.from \/ edge.from = prevEdge.to
                THEN edge.from ELSE edge.to
  IN [fromNodeId |-> fromNodeId,
      toNodeId |-> IF edge.from = fromNodeId THEN edge.to ELSE edge.from]

\* The turn that gives the plow up where it stands, route home or not.
plowTurnsBackGivenUp(net, pls, rm, id, returnPath) ==
  [network |-> net,
   plows |-> [pls EXCEPT ![id] = [@ EXCEPT !.returning = TRUE]],
   toRemove |-> Append(rm, id)]

plowTurnsBack(net, pls, rm, id, returnPath) ==
  IF returnPath.found
  THEN [network |-> net,
        plows |-> [pls EXCEPT ![id] = [@ EXCEPT !.returning = TRUE,
                                                !.path = returnPath.path,
                                                !.pathIndex = 0, !.progress = 0]],
        toRemove |-> rm]
  ELSE [network |-> net,
        plows |-> [pls EXCEPT ![id] = [@ EXCEPT !.returning = TRUE]],
        toRemove |-> Append(rm, id)]

\* The body of the loop of updatePlows for the plow id.
updatePlow(net, pls, cs, rm, id, d) ==
  IF getCurrentEdge(pls[id]) = NoEdge
  THEN IF pls[id].returning
       THEN [network |-> net, plows |-> pls, toRemove |-> Append(rm, id)]
       ELSE plowTurnsBack(net, pls, rm, id,
              findPath(net, pls[id].currentNodeId, "depot", LegacyOptions(TRUE)))
  ELSE IF blockedByStuckCar(cs, pls[id], getCurrentEdge(pls[id]))
  THEN [network |-> net, plows |-> pls, toRemove |-> rm]
  ELSE [network |-> plowClear(net, getCurrentEdge(pls[id]), d),
        plows |-> [pls EXCEPT ![id] =
                     Moved(net, getCurrentEdge(pls[id]), pls[id], pls[id].speed * 10, d)],
        toRemove |-> rm]

\* The pick-up that leaves the car in the population, uncounted.
towPicksUpUncounted(tws, cs, st, rm, id, returnPath) ==
  [cars |-> cs,
   stats |-> st,
   towTrucks |->
     IF returnPath.found
     THEN [tws EXCEPT ![id] = [@ EXCEPT !.hasCar = TRUE, !.returning = TRUE,
                                        !.path = returnPath.path,
                                        !.pathIndex = 0, !.progress = 0]]
     ELSE [tws EXCEPT ![id] = [@ EXCEPT !.hasCar = TRUE, !.returning = TRUE]],
   toRemove |-> IF returnPath.found THEN rm ELSE Append(rm, id)]

\* Lines 736-749: the car is picked up and the truck turns for home.
towPicksUp(tws, cs, st, rm, id, returnPath) ==
  [cars |-> removeCar(cs, st, tws[id].targetCarId, "rescued").cars,
   stats |-> removeCar(cs, st, tws[id].targetCarId, "rescued").stats,
   towTrucks |->
     IF returnPath.found
     THEN [tws EXCEPT ![id] = [@ EXCEPT !.hasCar = TRUE, !.returning = TRUE,
                                        !.path = returnPath.path,
                                        !.pathIndex = 0, !.progress = 0]]
     ELSE [tws EXCEPT ![id] = [@ EXCEPT !.hasCar = TRUE, !.returning = TRUE]],
   toRemove |-> IF returnPath.found THEN rm ELSE Append(rm, id)]

\* Lines 729-764; currentEdge is the edge the truck was on when its update began.
towStep(net, tws, cs, st, rm, id, currentEdge, d) ==
  IF currentEdge = NoEdge
  THEN IF tws[id].returning
       THEN [towTrucks |-> tws, cars |-> cs, stats |-> st, toRemove |-> Append(rm, id)]
       ELSE IF ~tws[id].hasCar /\ tws[id].targetCarId \in DOMAIN cs
       THEN towPicksUp(tws, cs, st, rm, id,
              findPath(net, tws[id].currentNodeId, "depot", LegacyOptions(TRUE)))
       ELSE [towTrucks |-> tws, cars |-> cs, stats |-> st, toRemove |-> rm]
  ELSE [towTrucks |-> [tws EXCEPT ![id] =
                         Moved(net, currentEdge, tws[id], tws[id].speed * 10, d)],
        cars |-> cs, stats |-> st, toRemove |-> rm]

\* Lines 716-726: the target is gone or moving again.
towTurnsBack(net, tws, cs, st, rm, id, currentEdge, d, returnPath) ==
  IF returnPath.found
  THEN towStep(net,
               [tws EXCEPT ![id] = [@ EXCEPT !.returning = TRUE,
                                             !.path = returnPath.path,
                                             !.pathIndex = 0, !.progress = 0]],
               cs, st, rm, id, currentEdge, d)
  ELSE [towTrucks |-> [tws EXCEPT ![id] = [@ EXCEPT !.returning = TRUE]],
        cars |-> cs, stats |-> st, toRemove |-> Append(rm, id)]

\* The body of the loop of updateTowTrucks for the truck id.
updateTowTruck(net, tws, cs, st, rm, id, d) ==
  IF (~tws[id].returning /\ ~tws[id].hasCar)
     /\ (tws[id].targetCarId \notin DOMAIN cs \/ ~cs[tws[id].targetCarId].stuck)
  THEN towTurnsBack(net, tws, cs, st, rm, id, getCurrentEdge(tws[id]), d,
         findPath(net, tws[id].currentNodeId, "depot", LegacyOptions(TRUE)))
  ELSE towStep(net, tws, cs, st, rm, id, getCurrentEdge(tws[id]), d)

\* The clean-up loop: every listed agent is deleted.
RECURSIVE CleanUp(_, _)
CleanUp(agents, rm) ==
  IF rm = <<>> THEN agents ELSE CleanUp(Without(agents, Head(rm)), Tail(rm))

(***************************************************************************)
(* State                                                                   *)
(***************************************************************************)
VARIABLES
  network,        \* GameScene.network: nodes, edges (snow, blocked), adjacency
  storm,          \* SnowSystem: current phase index and phase timer
  cars,           \* TrafficSystem.cars: id -> CarData
  nextCarId,
  spawnTimer,
  stats,          \* TrafficSystem.stats: exited, rescued
  plows,          \* GameScene.plows: id -> PlowData
  nextPlowId,
  plowCooldown,
  towTrucks,      \* GameScene.towTrucks: id -> TowTruckData
  nextTowTruckId,
  pc,             \* position inside GameScene.update: idle, cars, plows, tows
  delta,          \* the elapsed time handed to the running update
  queue,          \* the rest of the collection the running loop iterates over
  toRemove,       \* the toRemove array of updatePlows / updateTowTrucks
  env,            \* the driver: which elapsed times, draws and commands it gives
  ticks,          \* number of updates started
  commands,       \* number of roadClicked events delivered
  clock,          \* total elapsed time handed to update
  log,            \* history: tow trucks that turned back empty (empty),
                  \* calls of tryReroute per car (tried),
                  \* plow creation times, cars counted exited / rescued,
                  \* agents' target segments, the network around the snow step,
                  \* the plows that were halted behind an immobilized car
  lastOp,         \* the last step taken and the state it started from
  query           \* planner call and its result (planner specification)

vars == << network, storm, cars, nextCarId, spawnTimer, stats, plows, nextPlowId,
           plowCooldown, towTrucks, nextTowTruckId, pc, delta, queue, toRemove,
           env, ticks, commands, clock, log, lastOp, query >>

simVars == << storm, cars, nextCarId, spawnTimer, stats, plows, nextPlowId,
              plowCooldown, towTrucks, nextTowTruckId, pc, delta, queue, toRemove,
              env, ticks, commands, clock, log, lastOp >>

NoQuery == [called |-> FALSE]
NoOp == [op |-> "none"]

\* The state GameScene.create and the constructors leave, around a network.
Constructed(net, driver) ==
  /\ network = net
  /\ storm = [index |-> 1, timer |-> 0]
  /\ cars = EmptyFcn
  /\ nextCarId = 0
  /\ spawnTimer = 0
  /\ stats = [exited |-> 0, rescued |-> 0]
  /\ plows = EmptyFcn
  /\ nextPlowId = 0
  /\ plowCooldown = 0
  /\ towTrucks = EmptyFcn
  /\ nextTowTruckId = 0
  /\ pc = "idle"
  /\ delta = 0
  /\ queue = <<>>
  /\ toRemove = <<>>
  /\ env = driver
  /\ ticks = 0
  /\ commands = 0
  /\ clock = 0
  /\ log = [created |-> <<>>, exited |-> <<>>, rescued |-> <<>>,
            plowTarget |-> EmptyFcn, towTarget |-> EmptyFcn,
            tick |-> [before |-> net, after |-> net],
            held |-> {},
            tried |-> EmptyFcn,
            empty |-> {}]
  /\ lastOp = NoOp
  /\ query = NoQuery

\* What a step starts from, kept in lastOp.
Snapshot ==
  [network |-> network, cars |-> cars, stats |-> stats, plows |-> plows,
   towTrucks |-> towTrucks, nextCarId |-> nextCarId, nextPlowId |-> nextPlowId,
   nextTowTruckId |-> nextTowTruckId, plowCooldown |-> plowCooldown,
   spawnTimer |-> spawnTimer, storm |-> storm, clock |-> clock,
   pc |-> pc, queue |-> queue]

(***************************************************************************)
(* The driver.  Eight kinds of session bound the inputs:                   *)
(*   rush     short and long frames, two cars of either speed and either   *)
(*            direction, no clicks                                         *)
(*   storm    one long first frame that brings the snow to 8 or 9 units or *)
(*            runs into the second storm phase,                            *)
(*            then 1.33 s frames, later also 0.33 s frames; one road click *)
(*   plowing  1.5 s frames with road clicks between them                   *)
(*   queue    two cars sent down the same route 3 s apart, then 1.1 s      *)
(*            frames that bring them onto one segment, then 50 ms and      *)
(*            100 ms frames; no clicks                                     *)
(*   reroute  cars from west to south; four 3 s frames in which the first  *)
(*            car drives through, an 11.4 s frame and a 3 s frame that     *)
(*            bring the snow to 7.9, a 33 ms frame on which the fourth car *)
(*            is spawned, two 0.8 s frames, 1 ms frames up to that car's   *)
(*            59th update, a 1 s or 0.1 s frame, a 1 ms frame, then 1.33 s *)
(*            frames; one road click, before the 11.4 s frame              *)
(*   swerve   the reroute session with 8 units of snow at the corner and a *)
(*            3.2 s frame for the update that checks the route             *)
(*   recover  a 26.67 s frame, then 1.33 s frames, a car every 4 s; up to  *)
(*            two commands from outside between frames: a road click, a    *)
(*            call of setCarStuck(id, false), a call of removeCar          *)
(*   rescue   a 26.67 s frame, then 1.33 s frames (one of 0.33 s) for long *)
(*            enough to see agents come home; a car every 3 s, one click   *)
(***************************************************************************)
RerouteTicks == 68
RerouteCars == 5
RushTicks == 5
StormTicks == 6
PlowingTicks == 4
QueueTicks == 8
RescueTicks == 20
RecoverTicks == 12
RecoverCars == 4
RescueCars == 7
MaxCars == 2
MaxCommands == 3

Drivers == {"rush", "storm", "plowing", "queue"}

MaxTicksOf(driver) ==
  CASE driver = "rush" -> RushTicks
    [] driver = "storm" -> StormTicks
    [] driver = "plowing" -> PlowingTicks
    [] driver = "queue" -> QueueTicks
    [] driver = "rescue" -> RescueTicks
    [] driver = "recover" -> RecoverTicks
    [] driver = "reroute" -> RerouteTicks
    [] driver = "swerve" -> RerouteTicks + 2
    [] OTHER -> 0

\* The number of cars a session may spawn.
MaxCarsOf(driver) ==
  IF driver = "rescue" THEN RescueCars
  ELSE IF driver = "recover" THEN RecoverCars
  ELSE IF driver \in {"reroute", "swerve"} THEN RerouteCars
  ELSE MaxCars

\* Elapsed times, in time units (50 ms, 0.1 s, 0.333 s, 1.1 s, 1.333 s, 1.5 s, 3 s,
\* 26.67 s, 30 s, 41 s).
DeltasOf(driver, n) ==
  CASE driver = "rush" -> {150, 3300, 4500, 9000}
    [] driver = "storm" -> IF n = 0 THEN {80000, 90000, 123000}
                           ELSE IF n < 4 THEN {4000} ELSE {1000, 4000}
    [] driver = "plowing" -> {4500}
    [] driver = "queue" -> IF n < 2 THEN {9000}
                           ELSE IF n < 4 THEN {3300} ELSE {150, 300}
    [] driver = "recover" -> IF n = 0 THEN {80000} ELSE {4000}
    [] driver = "rescue" -> IF n = 0 THEN {80000}
                            ELSE IF n = 4 THEN {1000} ELSE {4000}
    [] driver = "swerve" -> IF n = 0 THEN {9000}
                             ELSE IF n < 4 THEN {8900}
                             ELSE IF n = 4 THEN {27500}
                             ELSE IF n = 5 THEN {8900}
                             ELSE IF n = 6 THEN {100}
                             ELSE IF n < 9 THEN {2400}
                             ELSE IF n < 64 THEN {3}
                             ELSE IF n = 64 THEN {3000}
                             ELSE IF n = 65 THEN {3, 9600}
                             ELSE {4000}
    [] driver = "reroute" -> IF n = 0 THEN {9000}
                             ELSE IF n < 4 THEN {8900}
                             ELSE IF n = 4 THEN {34300}
                             ELSE IF n = 5 THEN {8900}
                             ELSE IF n = 6 THEN {100}
                             ELSE IF n < 9 THEN {2400}
                             ELSE IF n < 64 THEN {3}
                             ELSE IF n = 64 THEN {300, 3000}
                             ELSE IF n = 65 THEN {3}
                             ELSE {4000}
    [] OTHER -> {}

\* The draws of trySpawnCar: start, end, speed.
SpawnsOf(driver) ==
  CASE driver = "rush" -> {<<"north", "south", 100>>, <<"north", "south", 140>>,
                           <<"south", "north", 100>>}
    [] driver = "storm" -> {<<"south", "north", 100>>}
    [] driver = "plowing" -> {<<"south", "north", 120>>}
    [] driver = "queue" -> {<<"north", "south", 100>>, <<"north", "south", 140>>}
    [] driver = "rescue" -> {<<"south", "north", 100>>}
    [] driver = "recover" -> {<<"south", "north", 100>>}
    [] driver = "reroute" -> {<<"west", "south", 149>>}
    [] driver = "swerve" -> {<<"west", "south", 149>>}
    [] OTHER -> {}

MaxCommandsOf(driver) ==
  CASE driver = "plowing" -> MaxCommands
    [] driver = "storm" -> 1
    [] driver = "rescue" -> 1
    [] driver = "recover" -> 2
    [] driver = "reroute" -> 1
    [] driver = "swerve" -> 1
    [] OTHER -> 0

Targets == {"ep-south", "h-sw-sc", "depot-road", "v-cc-sc", "h-cw-cc", "v-cw-sw"}

\* The segments the player clicks on in a session.
TargetsOf(driver) ==
  IF driver = "rescue" THEN Targets \ {"v-cw-sw"}
  ELSE IF driver = "recover" THEN {"v-cc-sc"}
  ELSE IF driver \in {"reroute", "swerve"} THEN {"h-cw-cc", "v-cw-sw"}
  ELSE Targets \ {"h-cw-cc", "v-cw-sw"}

\* Whether the player may click after n updates of the session.
ClicksAt(driver, n) == driver \in {"reroute", "swerve"} => n = 4

Init == \E driver \in Drivers : Constructed(createDefaultNetwork, driver)

(***************************************************************************)
(* GameScene.update, step by step                                          *)
(***************************************************************************)
\* The start of update with the snow system's update left out.
BeginTickSnowSkipped(d, draw) ==
  LET due == spawnTimer + d >= spawnInterval
      spawned == IF due
                 THEN trySpawnCar(network, cars, nextCarId, draw[1], draw[2], draw[3])
                 ELSE [cars |-> cars, nextCarId |-> nextCarId]
  IN /\ pc = "idle"
     /\ plowCooldown' = IF plowCooldown > 0 THEN plowCooldown - d ELSE plowCooldown
     /\ spawnTimer' = IF due THEN 0 ELSE spawnTimer + d
     /\ cars' = spawned.cars
     /\ nextCarId' = spawned.nextCarId
     /\ pc' = "cars"
     /\ queue' = Ascending(DOMAIN spawned.cars)
     /\ delta' = d
     /\ ticks' = ticks + 1
     /\ clock' = clock + d
     /\ lastOp' = [op |-> "tick", id |-> NoCar, pre |-> Snapshot]
     /\ log' = [log EXCEPT !.tick = [before |-> network, after |-> network]]
     /\ UNCHANGED << network, storm, stats, plows, nextPlowId, towTrucks,
                     nextTowTruckId, toRemove, env, commands, query >>

\* The cooldown, the snow and the traffic system's update; the car loop is
\* entered over the array getCars returns.
BeginTick(d, draw) ==
  LET storm1 == advanceStorm(storm, d)
      net1 == accumulate(network, accumulated(storm1, d))
      due == spawnTimer + d >= spawnInterval
      spawned == IF due
                 THEN trySpawnCar(net1, cars, nextCarId, draw[1], draw[2], draw[3])
                 ELSE [cars |-> cars, nextCarId |-> nextCarId]
  IN /\ pc = "idle"
     /\ plowCooldown' = IF plowCooldown > 0 THEN plowCooldown - d ELSE plowCooldown
     /\ storm' = storm1
     /\ network' = net1
     /\ spawnTimer' = IF due THEN 0 ELSE spawnTimer + d
     /\ cars' = spawned.cars
     /\ nextCarId' = spawned.nextCarId
     /\ pc' = "cars"
     /\ queue' = Ascending(DOMAIN spawned.cars)
     /\ delta' = d
     /\ ticks' = ticks + 1
     /\ clock' = clock + d
     /\ lastOp' = [op |-> "tick", id |-> NoCar, pre |-> Snapshot]
     /\ log' = [log EXCEPT !.tick = [before |-> network, after |-> net1]]
     /\ UNCHANGED << stats, plows, nextPlowId, towTrucks, nextTowTruckId, toRemove,
                     env, commands, query >>

Tick ==
  /\ ticks < MaxTicksOf(env)
  /\ \E d \in DeltasOf(env, ticks) :
       IF spawnTimer + d >= spawnInterval
       THEN /\ nextCarId < MaxCarsOf(env)
            /\ \E draw \in SpawnsOf(env) : BeginTick(d, draw)
       ELSE BeginTick(d, <<"north", "south", 100>>)

\* The update of the car id got as far as the call of tryReroute.
reachedReroute(cs, after, id) ==
  /\ getCurrentEdge(cs[id]) # NoEdge
  /\ id \in DOMAIN after
  /\ ~after[id].stuck
  /\ ~after[id].waiting

\* The history of the car's calls of tryReroute with one more call in it:
\* how many there were, how much elapsed time their updates delivered, and
\* how many of them found the countdown run out.
triedOnceMore(tried, cs, id, d) ==
  LET old == IF id \in DOMAIN tried THEN tried[id]
             ELSE [calls |-> 0, elapsed |-> 0, checks |-> 0]
  IN [calls |-> old.calls + 1,
      elapsed |-> old.elapsed + d,
      checks |-> old.checks + (IF cs[id].rerouteCheckTimer - 1 > 0 THEN 0 ELSE 1)]

UpdateCar ==
  /\ pc = "cars" /\ queue # <<>>
  /\ LET id == Head(queue)
         r == updateCar(network, cars, stats, towTrucks, nextTowTruckId, id, delta)
     IN /\ cars' = r.cars
        /\ stats' = r.stats
        /\ towTrucks' = r.towTrucks
        /\ nextTowTruckId' = r.nextTowTruckId
        /\ log' = [log EXCEPT
                     !.tried = IF reachedReroute(cars, r.cars, id)
                               THEN With(@, id, triedOnceMore(@, cars, id, delta))
                               ELSE @,
                     !.exited = IF r.stats.exited # stats.exited
                                THEN Append(@, id) ELSE @,
                     !.towTarget = IF r.nextTowTruckId # nextTowTruckId
                                   THEN With(@, nextTowTruckId, getCurrentEdge(cars[id]))
                                   ELSE @]
        /\ lastOp' = [op |-> "car", id |-> id, pre |-> Snapshot]
  /\ queue' = Tail(queue)
  /\ UNCHANGED << network, storm, nextCarId, spawnTimer, plows, nextPlowId,
                  plowCooldown, pc, delta, toRemove, env, ticks, commands, clock,
                  query >>

\* updateCars returns; updatePlows starts its loop.
EndCars ==
  /\ pc = "cars" /\ queue = <<>>
  /\ pc' = "plows"
  /\ queue' = Ascending(DOMAIN plows)
  /\ toRemove' = <<>>
  /\ lastOp' = [op |-> "endCars", id |-> NoCar, pre |-> Snapshot]
  /\ UNCHANGED << network, storm, cars, nextCarId, spawnTimer, stats, plows,
                  nextPlowId, plowCooldown, towTrucks, nextTowTruckId, delta, env,
                  ticks, commands, clock, log, query >>

UpdatePlow ==
  /\ pc = "plows" /\ queue # <<>>
  /\ LET id == Head(queue)
         r == updatePlow(network, plows, cars, toRemove, id, delta)
     IN /\ network' = r.network
        /\ plows' = r.plows
        /\ toRemove' = r.toRemove
        /\ log' = IF /\ getCurrentEdge(plows[id]) # NoEdge
                     /\ blockedByStuckCar(cars, plows[id], getCurrentEdge(plows[id]))
                  THEN [log EXCEPT !.held = @ \cup {id}]
                  ELSE log
        /\ lastOp' = [op |-> "plow", id |-> id, pre |-> Snapshot]
  /\ queue' = Tail(queue)
  /\ UNCHANGED << storm, cars, nextCarId, spawnTimer, stats, nextPlowId, plowCooldown,
                  towTrucks, nextTowTruckId, pc, delta, env, ticks, commands, clock,
                  query >>

\* The clean-up of updatePlows; updateTowTrucks starts its loop.
EndPlows ==
  /\ pc = "plows" /\ queue = <<>>
  /\ plows' = CleanUp(plows, toRemove)
  /\ pc' = "tows"
  /\ queue' = Ascending(DOMAIN towTrucks)
  /\ toRemove' = <<>>
  /\ lastOp' = [op |-> "endPlows", id |-> NoCar, pre |-> Snapshot]
  /\ UNCHANGED << network, storm, cars, nextCarId, spawnTimer, stats, nextPlowId,
                  plowCooldown, towTrucks, nextTowTruckId, delta, env, ticks,
                  commands, clock, log, query >>

\* Lines 713-714: the truck is on its way out and its target is gone or is
\* not stuck any more.
targetLost(cs, truck) ==
  /\ ~truck.returning /\ ~truck.hasCar
  /\ truck.targetCarId \notin DOMAIN cs \/ ~cs[truck.targetCarId].stuck

UpdateTowTruck ==
  /\ pc = "tows" /\ queue # <<>>
  /\ LET id == Head(queue)
         r == updateTowTruck(network, towTrucks, cars, stats, toRemove, id, delta)
     IN /\ towTrucks' = r.towTrucks
        /\ cars' = r.cars
        /\ stats' = r.stats
        /\ toRemove' = r.toRemove
        /\ log' = IF r.stats.rescued # stats.rescued
                  THEN [log EXCEPT !.rescued = Append(@, towTrucks[id].targetCarId)]
                  ELSE IF targetLost(cars, towTrucks[id])
                  THEN [log EXCEPT !.empty = @ \cup {id}]
                  ELSE log
        /\ lastOp' = [op |-> "tow", id |-> id, pre |-> Snapshot]
  /\ queue' = Tail(queue)
  /\ UNCHANGED << network, storm, nextCarId, spawnTimer, plows, nextPlowId,
                  plowCooldown, nextTowTruckId, pc, delta, env, ticks, commands,
                  clock, query >>

\* The clean-up of updateTowTrucks; update returns.
EndTows ==
  /\ pc = "tows" /\ queue = <<>>
  /\ towTrucks' = CleanUp(towTrucks, toRemove)
  /\ pc' = "idle"
  /\ toRemove' = <<>>
  /\ lastOp' = [op |-> "endTows", id |-> NoCar, pre |-> Snapshot]
  /\ UNCHANGED << network, storm, cars, nextCarId, spawnTimer, stats, plows,
                  nextPlowId, plowCooldown, nextTowTruckId, delta, queue, env, ticks,
                  commands, clock, log, query >>

\* The roadClicked handler, between two updates.
RoadClicked(targetEdge) ==
  /\ pc = "idle"
  /\ commands < MaxCommandsOf(env)
  /\ targetEdge \in TargetsOf(env)
  /\ targetEdge \in DOMAIN network.edges
  /\ ClicksAt(env, ticks)
  /\ LET r == dispatchPlow(network, plows, nextPlowId, plowCooldown, targetEdge)
     IN /\ plows' = r.plows
        /\ nextPlowId' = r.nextPlowId
        /\ plowCooldown' = r.plowCooldown
        /\ log' = IF r.nextPlowId # nextPlowId
                  THEN [log EXCEPT !.created = Append(@, clock),
                                   !.plowTarget = With(@, nextPlowId, targetEdge)]
                  ELSE log
  /\ commands' = commands + 1
  /\ lastOp' = [op |-> "roadClicked", id |-> NoCar, pre |-> Snapshot,
                 edge |-> targetEdge]
  /\ UNCHANGED << network, storm, cars, nextCarId, spawnTimer, stats, towTrucks,
                  nextTowTruckId, pc, delta, queue, toRemove, env, ticks, clock,
                  query >>

Next ==
  \/ Tick
  \/ UpdateCar
  \/ EndCars
  \/ UpdatePlow
  \/ EndPlows
  \/ UpdateTowTruck
  \/ EndTows
  \/ \E targetEdge \in Targets : RoadClicked(targetEdge)

Spec == Init /\ [][Next]_vars

\* The frame loop calls update again and again, and each update runs its
\* loops to their end: a step is taken whenever one can be.
\* A session of the queue kind: no road is clicked and the snow stays far
\* below 9, so there is never a plow or a tow truck to update.
QueueInit == Constructed(createDefaultNetwork, "queue")

QueueNext == Tick \/ UpdateCar \/ EndCars \/ EndPlows \/ EndTows

\* Whether a step of QueueNext can be taken: the frame loop has an update to
\* start, or the running update has a loop to carry on or to leave.
QueueCanStep ==
  \/ /\ pc = "idle"
     /\ ticks < MaxTicksOf(env)
     /\ \E d \in DeltasOf(env, ticks) :
          spawnTimer + d >= spawnInterval => nextCarId < MaxCarsOf(env)
  \/ pc = "cars"
  \/ pc \in {"plows", "tows"} /\ queue = <<>>

\* Weak fairness of QueueNext, with its enabling condition written out as
\* QueueCanStep: a step is taken whenever one can be.
QueueFairness == []<>(~QueueCanStep) \/ []<><<QueueNext>>_vars

SpecQueue == QueueInit /\ [][QueueNext]_vars /\ QueueFairness

\* A session of the rescue kind: a storm, cars that are snowed in, one plow.
RescueInit == Constructed(createDefaultNetwork, "rescue")

\* The steps of update: everything but the player's click.
UpdateSteps ==
  Tick \/ UpdateCar \/ EndCars \/ UpdatePlow \/ EndPlows \/ UpdateTowTruck \/ EndTows

\* Whether a step of update can be taken: inside an update always, between
\* two updates when the session has a frame left.
UpdateCanStep ==
  \/ pc # "idle"
  \/ /\ ticks < MaxTicksOf(env)
     /\ \E d \in DeltasOf(env, ticks) :
          spawnTimer + d >= spawnInterval => nextCarId < MaxCarsOf(env)

\* Weak fairness of UpdateSteps, with its enabling condition written out as
\* UpdateCanStep: the frame loop keeps calling update.  Every step of update
\* changes pc or queue.
UpdateFairness == []<>(~UpdateCanStep) \/ []<><<UpdateSteps>>_<<pc, queue>>

SpecRescue == RescueInit /\ [][Next]_vars /\ UpdateFairness

\* The default network built without the segments of cut.
SeveredNetwork(cut) ==
  AddEdges(SetNodes(EmptyNetwork, DefaultNodes),
           SelectSeq(DefaultEdges, LAMBDA t : t[1] \notin cut))

\* With depot-road left out, no location can be reached from the depot.
Cuts == { {}, {"depot-road"} }

\* A rescue session on the default network or on the one without depot-road.
SeveredInit == \E cut \in Cuts : Constructed(SeveredNetwork(cut), "rescue")

SpecSevered == SeveredInit /\ [][Next]_vars

\* A session of the recover kind: between two updates the traffic system's
\* setCarStuck(id, false) or removeCar(id, 'exited') is called from outside
\* for a car that is stuck.  The game itself makes neither call.
RecoverInit == Constructed(createDefaultNetwork, "recover")

SetCarStuckCalled(carId) ==
  /\ pc = "idle"
  /\ env = "recover"
  /\ commands < MaxCommandsOf(env)
  /\ carId \in DOMAIN cars
  /\ cars[carId].stuck
  /\ cars' = setCarStuck(cars, carId, FALSE)
  /\ commands' = commands + 1
  /\ lastOp' = [op |-> "setCarStuck", id |-> carId, pre |-> Snapshot]
  /\ UNCHANGED << network, storm, nextCarId, spawnTimer, stats, plows, nextPlowId,
                  plowCooldown, towTrucks, nextTowTruckId, pc, delta, queue,
                  toRemove, env, ticks, clock, log, query >>

RemoveCarCalled(carId) ==
  /\ pc = "idle"
  /\ env = "recover"
  /\ commands < MaxCommandsOf(env)
  /\ carId \in DOMAIN cars
  /\ cars[carId].stuck
  /\ cars' = removeCar(cars, stats, carId, "exited").cars
  /\ stats' = removeCar(cars, stats, carId, "exited").stats
  /\ commands' = commands + 1
  /\ log' = [log EXCEPT !.exited = Append(@, carId)]
  /\ lastOp' = [op |-> "removeCar", id |-> carId, pre |-> Snapshot]
  /\ UNCHANGED << network, storm, nextCarId, spawnTimer, plows, nextPlowId,
                  plowCooldown, towTrucks, nextTowTruckId, pc, delta, queue,
                  toRemove, env, ticks, clock, query >>

RecoverNext ==
  \/ Next
  \/ \E carId \in 0..(RecoverCars - 1) : SetCarStuckCalled(carId)
  \/ \E carId \in 0..(RecoverCars - 1) : RemoveCarCalled(carId)

SpecRecover == RecoverInit /\ [][RecoverNext]_vars

\* A session of the reroute kind: a car comes to a corner sixty updates
\* after it was spawned, with deep snow ahead and a plowed way round.
RerouteInit == Constructed(createDefaultNetwork, "reroute")

SpecReroute == RerouteInit /\ [][Next]_vars

\* A session of the swerve kind: as the reroute kind, with less snow (8 units
\* when the car comes to the corner) and a frame of 3.2 s for the update in
\* which the car looks for another route.
SwerveInit == Constructed(createDefaultNetwork, "swerve")

SpecSwerve == SwerveInit /\ [][Next]_vars

(***************************************************************************)
(* Planner specification: findPath applied to every snapshot of a small    *)
(* family of networks.  Four locations on the corners of a 30 x 40         *)
(* rectangle (all distances are whole numbers: 30, 40, 50), five candidate *)
(* segments, each absent or present in one of four conditions.             *)
(***************************************************************************)
PlanNodes ==
  << <<"a", 0, 0, "endpoint">>, <<"b", 30, 0, "intersection">>,
     <<"c", 0, 40, "intersection">>, <<"d", 30, 40, "endpoint">> >>

PlanEdges ==
  << <<"ab", "a", "b">>, <<"bd", "b", "d">>, <<"ad", "a", "d">>,
     <<"ca", "c", "a">>, <<"dc", "d", "c">> >>

PlanEdgeIds == {PlanEdges[i][1] : i \in 1..Len(PlanEdges)}

\* Snow 4 costs 20 px, snow 12 is capped at 50 px.
PlanConditions ==
  [absent  |-> [snow |-> 0, blocked |-> FALSE],
   clear   |-> [snow |-> 0, blocked |-> FALSE],
   light   |-> [snow |-> 4 * SnowScale, blocked |-> FALSE],
   deep    |-> [snow |-> 12 * SnowScale, blocked |-> FALSE],
   blocked |-> [snow |-> 0, blocked |-> TRUE]]

PlanQueryNodes == {"a", "b", "c", "d", "zz"}
PlanStarts == {"a", "b", "zz"}
PlanGoals == {"a", "c", "d", "zz"}
PlanOptions == {DefaultOptions, IgnoreAll, LegacyOptions(TRUE)}

SelectPresent(list, cond) ==
  SelectSeq(list, LAMBDA t : cond[t[1]] # "absent")

PlanNetwork(cond) ==
  LET net == AddEdges(SetNodes(EmptyNetwork, PlanNodes), SelectPresent(PlanEdges, cond))
  IN [net EXCEPT !.edges =
        [e \in DOMAIN net.edges |->
           [net.edges[e] EXCEPT !.snow = PlanConditions[cond[e]].snow,
                                !.blocked = PlanConditions[cond[e]].blocked]]]

PlanInit ==
  \E cond \in [PlanEdgeIds -> DOMAIN PlanConditions] : Constructed(PlanNetwork(cond), "planner")

\* One call of findPath on the current snapshot.
FindRoute(s, g, o) ==
  /\ ~query.called
  /\ query' = [called |-> TRUE, start |-> s, goal |-> g, options |-> o,
               result |-> findPath(network, s, g, o)]
  /\ UNCHANGED << network, simVars >>

PlanNext == \E s \in PlanStarts, g \in PlanGoals, o \in PlanOptions : FindRoute(s, g, o)

SpecPlan == PlanInit /\ [][PlanNext]_vars

(***************************************************************************)
(* Snow specification: accumulate and clearSnow applied to the default     *)
(* network at several snow levels.  query holds the network before the     *)
(* calls and what was called.                                              *)
(***************************************************************************)
SnowLevels == {0, 1, 2 * SnowScale, 9 * SnowScale + 600}

SnowAmounts == {0, 1, 100, 5 * SnowScale, 12 * SnowScale}

SnowEdges == DOMAIN createDefaultNetwork.edges

\* The default network with every accumulating segment at the given level.
SnowedNetwork(level) == accumulate(createDefaultNetwork, level)

SnowInit == \E level \in SnowLevels : Constructed(SnowedNetwork(level), "snow")

\* accumulate(amount) on the network as constructed.
SnowAccumulate(a) ==
  /\ ~query.called
  /\ network' = accumulate(network, a)
  /\ query' = [called |-> TRUE, stage |-> "accumulated", prior |-> network,
               amount |-> a, edge |-> NoEdge]
  /\ UNCHANGED simVars

\* clearSnow(edge, amount) with the amount just accumulated.
SnowClear(e) ==
  /\ query.called /\ query.stage = "accumulated"
  /\ network' = clearSnow(network, e, query.amount)
  /\ query' = [query EXCEPT !.stage = "cleared", !.edge = e]
  /\ UNCHANGED simVars

\* clearSnow(edge, 0) on the network as constructed.
SnowClearNothing(e) ==
  /\ ~query.called
  /\ network' = clearSnow(network, e, 0)
  /\ query' = [called |-> TRUE, stage |-> "clearedNothing", prior |-> network,
               amount |-> 0, edge |-> e]
  /\ UNCHANGED simVars

SnowNext ==
  \/ \E a \in SnowAmounts : SnowAccumulate(a)
  \/ \E e \in SnowEdges : SnowClear(e)
  \/ \E e \in SnowEdges : SnowClearNothing(e)

SpecSnow == SnowInit /\ [][SnowNext]_vars


(***************************************************************************)
(* Spawn specification: TrafficSystem.update applied to the default        *)
(* network with some of the segments at the termini obstructed, for every  *)
(* pair of distinct termini the draw can give.                             *)
(***************************************************************************)
SpawnCycles == 2

SpawnBlockings ==
  { {}, {"ep-north"}, {"ep-north", "ep-south"},
    {"ep-north", "ep-south", "ep-east", "ep-west"} }

\* The default network with the given segments obstructed.
BlockedNetwork(B) ==
  [createDefaultNetwork EXCEPT !.edges =
     [e \in DOMAIN createDefaultNetwork.edges |->
        [createDefaultNetwork.edges[e] EXCEPT !.blocked = e \in B]]]

\* The draws of trySpawnCar: a terminus, another terminus, a speed.
SpawnDraws ==
  {<<endpoints[i], endpoints[j], v>> : i \in 1..Len(endpoints), j \in 1..Len(endpoints),
                                      v \in {100, 149}} \ 
  {<<endpoints[i], endpoints[i], v>> : i \in 1..Len(endpoints), v \in {100, 149}}

SpawnInit == \E B \in SpawnBlockings : Constructed(BlockedNetwork(B), "spawn")

\* TrafficSystem.update(d): the timer, and a spawn attempt when it is due.
SpawnCycle(d, draw) ==
  LET due == spawnTimer + d >= spawnInterval
      spawned == IF due
                 THEN trySpawnCar(network, cars, nextCarId, draw[1], draw[2], draw[3])
                 ELSE [cars |-> cars, nextCarId |-> nextCarId]
  IN /\ ticks < SpawnCycles
     /\ spawnTimer' = IF due THEN 0 ELSE spawnTimer + d
     /\ cars' = spawned.cars
     /\ nextCarId' = spawned.nextCarId
     /\ ticks' = ticks + 1
     /\ lastOp' = [op |-> "spawnCycle", id |-> NoCar, pre |-> Snapshot,
                    due |-> due, draw |-> draw]
     /\ UNCHANGED << network, storm, stats, plows, nextPlowId, plowCooldown,
                     towTrucks, nextTowTruckId, pc, delta, queue, toRemove, env,
                     commands, clock, log, query >>

SpawnNext == \E d \in {4500, 9000}, draw \in SpawnDraws : SpawnCycle(d, draw)

SpecSpawn == SpawnInit /\ [][SpawnNext]_vars


(***************************************************************************)
(* What a route is, stated apart from the planner                          *)
(***************************************************************************)
Broken == "broken"

\* The location reached by following path from location at; Broken when a
\* segment does not touch the location reached so far.
RECURSIVE WalkEnd(_, _, _)
WalkEnd(net, at, path) ==
  IF path = <<>> THEN at
  ELSE IF Head(path) \notin DOMAIN net.edges THEN Broken
  ELSE LET e == net.edges[Head(path)]
       IN IF e.from = at \/ e.to = at
          THEN WalkEnd(net, getOtherNode(e, at), Tail(path))
          ELSE Broken

SegmentLength(net, e) ==
  distance(net.nodes[net.edges[e].from].x, net.nodes[net.edges[e].from].y,
           net.nodes[net.edges[e].to].x, net.nodes[net.edges[e].to].y)

\* Euclidean length plus min(snow * 0.5, 5) * 10.
SegmentCost(net, e) ==
  LET half == net.edges[e].snow \div 2
      capped == IF half > 5 * SnowScale THEN 5 * SnowScale ELSE half
  IN SegmentLength(net, e) + (capped * 10 * DistScale) \div SnowScale

RECURSIVE RouteCost(_, _)
RouteCost(net, path) ==
  IF path = <<>> THEN 0 ELSE SegmentCost(net, Head(path)) + RouteCost(net, Tail(path))

Permitted(net, e, opts) == opts.ignoreBlocked \/ ~net.edges[e].blocked

Unreached == 1000000

\* Cost of the cheapest walk from start to every location over the permitted
\* segments, by exhaustive relaxation (Unreached when there is none).  d is a
\* set of <<location, cost>> pairs.
CostIn(d, n) == (CHOOSE p \in d : p[1] = n)[2]

MinOf(S) == CHOOSE m \in S : \A k \in S : m <= k

RelaxAll(net, opts, d) ==
  { <<n, MinOf({CostIn(d, n)} \cup
               {CostIn(d, getOtherNode(net.edges[e], n)) + SegmentCost(net, e) :
                  e \in {x \in DOMAIN net.edges :
                           /\ Permitted(net, x, opts)
                           /\ (net.edges[x].from = n \/ net.edges[x].to = n)
                           /\ CostIn(d, getOtherNode(net.edges[x], n)) < Unreached}})>> :
      n \in DOMAIN net.nodes }

RECURSIVE Cheapest(_, _, _, _)
Cheapest(net, opts, d, rounds) ==
  IF rounds = 0 THEN d ELSE Cheapest(net, opts, RelaxAll(net, opts, d), rounds - 1)

CheapestWalk(net, start, goal, opts) ==
  IF start \notin DOMAIN net.nodes \/ goal \notin DOMAIN net.nodes THEN Unreached
  ELSE CostIn(Cheapest(net, opts,
                       {<<n, IF n = start THEN 0 ELSE Unreached>> : n \in DOMAIN net.nodes},
                       Cardinality(DOMAIN net.nodes)), goal)

InGraph(net, s, g) == s \in DOMAIN net.nodes /\ g \in DOMAIN net.nodes

\* C2: a route returned under the default policy costs no more than any
\* walk from start to goal over the non-obstructed segments of the snapshot.
C2_RouteIsCheapest ==
  (query.called /\ query.options = DefaultOptions /\ query.result.found)
    => RouteCost(network, query.result.path)
         <= CheapestWalk(network, query.start, query.goal, DefaultOptions)

\* The planner went round a direct segment that snow made dearer.
C2_Witness ==
  /\ query.called /\ query.options = DefaultOptions /\ query.result.found
  /\ query.start = "a" /\ query.goal = "d"
  /\ "ad" \in DOMAIN network.edges /\ ~network.edges["ad"].blocked
  /\ Len(query.result.path) = 2

\* C3: a returned route is a contiguous walk from start to goal, and it is
\* empty exactly when start equals goal.
C3_RouteIsWalk ==
  (query.called /\ query.result.found)
    => /\ WalkEnd(network, query.start, query.result.path) = query.goal
       /\ (query.result.path = <<>>) <=> (query.start = query.goal)

C3_Witness ==
  /\ query.called /\ query.result.found
  /\ Len(query.result.path) = 3
  /\ WalkEnd(network, query.start, query.result.path) = query.goal

\* C4: the planner answers no-route exactly when start or goal is not a
\* location or no walk joins them over the permitted segments, and the
\* search takes at most one pass per location.
C4_NoRouteExactly ==
  query.called =>
    /\ ~query.result.found <=>
         \/ ~InGraph(network, query.start, query.goal)
         \/ CheapestWalk(network, query.start, query.goal, query.options) = Unreached
    /\ query.result.iterations <= Cardinality(DOMAIN network.nodes)

\* Start and goal are locations, joined only through an obstructed segment.
C4_Witness ==
  /\ query.called /\ ~query.result.found
  /\ InGraph(network, query.start, query.goal)
  /\ CheapestWalk(network, query.start, query.goal, IgnoreAll) < Unreached
  /\ query.result.iterations >= 2

Unobstructed(net) ==
  [net EXCEPT !.edges = [e \in DOMAIN net.edges |-> [net.edges[e] EXCEPT !.blocked = FALSE]]]

\* C5: a route planned without ignore-obstruction has no obstructed segment;
\* with ignore-obstruction the answer is the one for the same snapshot with
\* every obstruction flag cleared.
C5_ObstructionPruned ==
  query.called =>
    /\ (~query.options.ignoreBlocked /\ query.result.found)
         => \A i \in 1..Len(query.result.path) :
              ~network.edges[query.result.path[i]].blocked
    /\ query.options.ignoreBlocked
         => query.result = findPath(Unobstructed(network), query.start, query.goal,
                                    query.options)

\* An obstructed direct segment was avoided by a longer route.
C5_Witness ==
  /\ query.called /\ ~query.options.ignoreBlocked /\ query.result.found
  /\ query.start = "a" /\ query.goal = "d"
  /\ "ad" \in DOMAIN network.edges /\ network.edges["ad"].blocked
  /\ Len(query.result.path) >= 2

(***************************************************************************)
(* Claims about the simulation.  lastOp names the step just taken and      *)
(* holds the state it started from.                                        *)
(***************************************************************************)
CarStep == lastOp.op = "car"
PlowStep == lastOp.op = "plow"
Clicked == lastOp.op = "roadClicked"

\* The car, plow or truck the step was about, as it was before the step.
CarBefore == lastOp.pre.cars[lastOp.id]
PlowBefore == lastOp.pre.plows[lastOp.id]

SnowBefore(e) == lastOp.pre.network.edges[e].snow

\* The plow step was one that clears: the plow had a current segment and no
\* immobilized car stood within 0.3 ahead of it.
PlowCleared ==
  /\ PlowStep
  /\ getCurrentEdge(PlowBefore) # NoEdge
  /\ ~\E c \in DOMAIN lastOp.pre.cars :
        LET car == lastOp.pre.cars[c]
            pos == IF car.currentNodeId = PlowBefore.currentNodeId
                   THEN car.progress ELSE ProgScale - car.progress
        IN /\ car.stuck
           /\ getCurrentEdge(car) = getCurrentEdge(PlowBefore)
           /\ pos > PlowBefore.progress
           /\ pos - PlowBefore.progress < (3 * ProgScale) \div 10

\* C1: every segment's accumulation is >= 0 in every reachable state, and a
\* plow's clear whose amount (15 per second) exceeds the accumulation leaves
\* the segment at exactly 0.
C1_SnowNeverNegative ==
  /\ \A e \in DOMAIN network.edges : network.edges[e].snow >= 0
  /\ (PlowCleared
      /\ (15 * SnowScale * delta) \div (1000 * TimeDen)
           > SnowBefore(getCurrentEdge(PlowBefore)))
       => network.edges[getCurrentEdge(PlowBefore)].snow = 0

\* A plow cleared a segment that held less snow than the plow removes in
\* the tick.
C1_Witness ==
  /\ PlowCleared
  /\ SnowBefore(getCurrentEdge(PlowBefore)) > 0
  /\ (15 * SnowScale * delta) \div (1000 * TimeDen)
       > SnowBefore(getCurrentEdge(PlowBefore))
  /\ network.edges[getCurrentEdge(PlowBefore)].snow = 0

\* The car of the step had a current segment and was not immobilized.
FreeCarStep ==
  /\ CarStep
  /\ getCurrentEdge(CarBefore) # NoEdge
  /\ ~CarBefore.stuck

\* C6: in its update a not-yet-immobilized car on a segment with
\* accumulation exactly 9 becomes immobilized, and one on a segment with
\* accumulation exactly 8 does not.
C6_DeepBoundary ==
  FreeCarStep =>
    /\ SnowBefore(getCurrentEdge(CarBefore)) = 9 * SnowScale
         => (lastOp.id \in DOMAIN cars /\ cars[lastOp.id].stuck)
    /\ SnowBefore(getCurrentEdge(CarBefore)) = 8 * SnowScale
         => (lastOp.id \in DOMAIN cars /\ ~cars[lastOp.id].stuck)

C6_Witness ==
  /\ FreeCarStep
  /\ SnowBefore(getCurrentEdge(CarBefore)) = 9 * SnowScale
  /\ cars[lastOp.id].stuck

\* The other side of the boundary is reached as well.
C6_WitnessBelow ==
  /\ FreeCarStep
  /\ SnowBefore(getCurrentEdge(CarBefore)) = 8 * SnowScale
  /\ ~cars[lastOp.id].stuck

\* C7: a car whose segment has accumulation >= 9 at its update is (or
\* stays) immobilized, its progress does not increase and it does not roll
\* over to the next segment.
C7_NoAdvanceInDeepSnow ==
  (/\ CarStep
   /\ getCurrentEdge(CarBefore) # NoEdge
   /\ SnowBefore(getCurrentEdge(CarBefore)) >= 9 * SnowScale)
    => /\ lastOp.id \in DOMAIN cars
       /\ cars[lastOp.id].stuck
       /\ cars[lastOp.id].progress <= CarBefore.progress
       /\ cars[lastOp.id].pathIndex = CarBefore.pathIndex
       /\ cars[lastOp.id].currentNodeId = CarBefore.currentNodeId
       /\ cars[lastOp.id].path = CarBefore.path

\* A car part of the way along a segment is caught by the snow reaching 9.
C7_Witness ==
  /\ FreeCarStep
  /\ SnowBefore(getCurrentEdge(CarBefore)) >= 9 * SnowScale
  /\ CarBefore.progress > 0
  /\ cars[lastOp.id].stuck
  /\ cars[lastOp.id].progress = CarBefore.progress

NoRepeat(sq) == \A i, j \in 1..Len(sq) : sq[i] = sq[j] => i = j

Range(sq) == {sq[i] : i \in 1..Len(sq)}

\* C8: a car whose route is exhausted is removed by its next car update,
\* which adds exactly one to the exited count and nothing to the rescued
\* count; the car update visits every car; no car is counted as exited
\* twice, and none as both exited and rescued.
C8_ExitedOnce ==
  /\ (CarStep /\ getCurrentEdge(CarBefore) = NoEdge)
       => /\ lastOp.id \notin DOMAIN cars
          /\ stats.exited = lastOp.pre.stats.exited + 1
          /\ stats.rescued = lastOp.pre.stats.rescued
  /\ pc = "cars" => Range(queue) \subseteq DOMAIN cars
  /\ lastOp.op = "tick" => Range(queue) = DOMAIN cars
  /\ NoRepeat(log.exited)
  /\ Range(log.exited) \cap Range(log.rescued) = {}
  /\ Len(log.exited) = stats.exited
  /\ Len(log.rescued) = stats.rescued
  /\ Range(log.exited) \cap DOMAIN cars = {}

C8_Witness ==
  /\ CarStep
  /\ getCurrentEdge(CarBefore) = NoEdge
  /\ lastOp.id \notin DOMAIN cars
  /\ stats.exited = 1

\* The plow creations that came before the step just taken.
CreatedBefore ==
  IF Clicked /\ nextPlowId # lastOp.pre.nextPlowId
  THEN SubSeq(log.created, 1, Len(log.created) - 1)
  ELSE log.created

\* The configured cooldown has passed since the latest earlier creation.
CooldownElapsed ==
  \/ CreatedBefore = <<>>
  \/ clock - CreatedBefore[Len(CreatedBefore)] >= TIMING.PLOW_COOLDOWN

\* C9: a dispatch with the cooldown above 0 creates no plow and changes
\* nothing; a creation sets the cooldown to the configured duration; any
\* two creations are at least that duration apart; and a dispatch after the
\* duration has elapsed creates exactly one plow.
C9_PlowCooldown ==
  /\ (Clicked /\ lastOp.pre.plowCooldown > 0)
       => /\ plows = lastOp.pre.plows
          /\ nextPlowId = lastOp.pre.nextPlowId
          /\ plowCooldown = lastOp.pre.plowCooldown
          /\ network = lastOp.pre.network
          /\ cars = lastOp.pre.cars
          /\ stats = lastOp.pre.stats
          /\ towTrucks = lastOp.pre.towTrucks
          /\ storm = lastOp.pre.storm
  /\ (Clicked /\ DOMAIN plows # DOMAIN lastOp.pre.plows)
       => plowCooldown = TIMING.PLOW_COOLDOWN
  /\ \A i, j \in 1..Len(log.created) :
       i < j => log.created[j] - log.created[i] >= TIMING.PLOW_COOLDOWN
  /\ (Clicked /\ CooldownElapsed)
       => /\ DOMAIN plows = DOMAIN lastOp.pre.plows \cup {lastOp.pre.nextPlowId}
          /\ lastOp.pre.nextPlowId \notin DOMAIN lastOp.pre.plows
          /\ nextPlowId = lastOp.pre.nextPlowId + 1
          /\ \A p \in DOMAIN lastOp.pre.plows : plows[p] = lastOp.pre.plows[p]

\* A second plow is created once the cooldown has run out, after a
\* dispatch in between was refused.
C9_Witness ==
  /\ Clicked
  /\ Len(log.created) = 2
  /\ commands = 3
  /\ DOMAIN plows # DOMAIN lastOp.pre.plows
  /\ plowCooldown = TIMING.PLOW_COOLDOWN

\* A dispatch is refused while the cooldown is running.
C9_WitnessRefused ==
  /\ Clicked
  /\ lastOp.pre.plowCooldown > 0
  /\ plows = lastOp.pre.plows

\* The cars ahead of the stepping car in its lane, before the step: on the
\* same segment, travelling the same way, further along.
AheadBefore ==
  {c \in DOMAIN lastOp.pre.cars \ {lastOp.id} :
     /\ getCurrentEdge(lastOp.pre.cars[c]) = getCurrentEdge(CarBefore)
     /\ lastOp.pre.cars[c].currentNodeId = CarBefore.currentNodeId
     /\ lastOp.pre.cars[c].progress > CarBefore.progress}

GapBefore(c) == lastOp.pre.cars[c].progress - CarBefore.progress

NearestBefore == {c \in AheadBefore : \A o \in AheadBefore : GapBefore(c) <= GapBefore(o)}

\* The nearest car ahead is closer than 0.08, or closer than 0.12 and
\* itself immobilized or yielding.
MustYield ==
  \E c \in NearestBefore :
    \/ GapBefore(c) * 100 < 8 * ProgScale
    \/ /\ GapBefore(c) * 100 < 12 * ProgScale
       /\ lastOp.pre.cars[c].stuck \/ lastOp.pre.cars[c].waiting

\* C10: a trailing car that is not immobilized when the yield check runs,
\* and whose nearest car ahead in its lane is too close, is marked yielding
\* and its progress, segment index and current node stay as they were.
C10_Yield ==
  (/\ FreeCarStep
   /\ lastOp.id \in DOMAIN cars
   /\ ~cars[lastOp.id].stuck
   /\ MustYield)
    => /\ cars[lastOp.id].waiting
       /\ cars[lastOp.id].progress = CarBefore.progress
       /\ cars[lastOp.id].pathIndex = CarBefore.pathIndex
       /\ cars[lastOp.id].currentNodeId = CarBefore.currentNodeId

\* A car yields to a moving car less than 0.08 ahead of it.
C10_Witness ==
  /\ FreeCarStep
  /\ MustYield
  /\ \E c \in NearestBefore :
       /\ GapBefore(c) * 100 < 8 * ProgScale
       /\ ~lastOp.pre.cars[c].stuck
       /\ ~lastOp.pre.cars[c].waiting
  /\ cars[lastOp.id].waiting
  /\ cars[lastOp.id].progress = CarBefore.progress

\* The cars on the stepping car's segment that travel the other way.
OncomingBefore ==
  {c \in DOMAIN lastOp.pre.cars \ {lastOp.id} :
     /\ getCurrentEdge(lastOp.pre.cars[c]) = getCurrentEdge(CarBefore)
     /\ lastOp.pre.cars[c].currentNodeId # CarBefore.currentNodeId}

\* The population before the step with the oncoming cars taken away, or
\* marked immobilized, or marked yielding.
OncomingVariants ==
  { [c \in DOMAIN lastOp.pre.cars \ OncomingBefore |-> lastOp.pre.cars[c]],
    [c \in DOMAIN lastOp.pre.cars |->
       IF c \in OncomingBefore
       THEN [lastOp.pre.cars[c] EXCEPT !.stuck = TRUE, !.waiting = FALSE]
       ELSE lastOp.pre.cars[c]],
    [c \in DOMAIN lastOp.pre.cars |->
       IF c \in OncomingBefore
       THEN [lastOp.pre.cars[c] EXCEPT !.stuck = FALSE, !.waiting = TRUE]
       ELSE lastOp.pre.cars[c]] }

\* C11: a car that yields in its update has a car of its own direction
\* ahead of it within 0.12 on its segment, and the outcome of the update for
\* the car is the same with the oncoming cars of its segment taken away,
\* immobilized or yielding.
C11_OncomingIgnored ==
  (CarStep /\ getCurrentEdge(CarBefore) # NoEdge)
    => /\ lastOp.id \in DOMAIN cars
       /\ (cars[lastOp.id].waiting /\ ~cars[lastOp.id].stuck)
            => \E c \in AheadBefore : GapBefore(c) * 100 < 12 * ProgScale
       /\ \A cs \in OncomingVariants :
            updateCar(lastOp.pre.network, cs, lastOp.pre.stats, lastOp.pre.towTrucks,
                      lastOp.pre.nextTowTruckId, lastOp.id, delta).cars[lastOp.id]
              = cars[lastOp.id]

\* A car moves on although an oncoming car is less than 0.08 ahead of it.
C11_Witness ==
  /\ FreeCarStep
  /\ \E c \in OncomingBefore :
       /\ ProgScale - lastOp.pre.cars[c].progress > CarBefore.progress
       /\ (ProgScale - lastOp.pre.cars[c].progress - CarBefore.progress) * 100
            < 8 * ProgScale
  /\ ~cars[lastOp.id].waiting
  /\ ~cars[lastOp.id].stuck
  /\ \/ cars[lastOp.id].progress > CarBefore.progress
     \/ cars[lastOp.id].pathIndex > CarBefore.pathIndex

TowStep == lastOp.op = "tow"

TowBefore == lastOp.pre.towTrucks[lastOp.id]

EndsOf(e) == {network.edges[e].from, network.edges[e].to}

\* The agent stands where it stood, turned for home, at the start of a
\* route that is a walk from there to the depot.
TurnedForHome(before, after) ==
  /\ after.returning
  /\ after.currentNodeId = before.currentNodeId
  /\ after.pathIndex = 0
  /\ after.progress = 0
  /\ WalkEnd(network, after.currentNodeId, after.path) = "depot"

\* C12: when the outbound route of a plow or a tow truck is exhausted, the
\* agent stands at one end of the segment it was dispatched to, and the
\* return route it then takes is a walk from there that ends at the depot.
C12_RoundTrip ==
  /\ (PlowStep /\ getCurrentEdge(PlowBefore) = NoEdge /\ ~PlowBefore.returning)
       => /\ PlowBefore.currentNodeId \in EndsOf(log.plowTarget[lastOp.id])
          /\ TurnedForHome(PlowBefore, plows[lastOp.id])
  /\ (TowStep /\ getCurrentEdge(TowBefore) = NoEdge /\ ~TowBefore.returning)
       => /\ TowBefore.currentNodeId \in EndsOf(log.towTarget[lastOp.id])
          /\ TurnedForHome(TowBefore, towTrucks[lastOp.id])

\* A plow sent to a segment two segments from the depot turns for home at
\* its far end.
C12_Witness ==
  /\ PlowStep
  /\ getCurrentEdge(PlowBefore) = NoEdge
  /\ ~PlowBefore.returning
  /\ log.plowTarget[lastOp.id] = "h-sw-sc"
  /\ PlowBefore.currentNodeId = "SW"
  /\ plows[lastOp.id].returning
  /\ plows[lastOp.id].path = <<"h-sw-sc", "ep-south", "depot-road">>

\* A tow truck does the same at the segment of its car.
C12_WitnessTow ==
  /\ TowStep
  /\ getCurrentEdge(TowBefore) = NoEdge
  /\ ~TowBefore.returning
  /\ towTrucks[lastOp.id].returning
  /\ towTrucks[lastOp.id].path # <<>>

\* The cars of the population that a live tow truck has as its target.
Targeted == {c \in DOMAIN cars : \E t \in DOMAIN towTrucks : towTrucks[t].targetCarId = c}

\* C13: no two live tow trucks have the same target car, and dispatchTowTruck
\* for a car that a live truck already targets returns the trucks and the id
\* counter as they were.
C13_OneTowPerCar ==
  /\ \A t, u \in DOMAIN towTrucks :
       towTrucks[t].targetCarId = towTrucks[u].targetCarId => t = u
  /\ \A c \in Targeted :
       dispatchTowTruck(network, towTrucks, nextTowTruckId, cars[c])
         = [towTrucks |-> towTrucks, nextTowTruckId |-> nextTowTruckId]

\* Two immobilized cars, each with its own truck on the way.
C13_Witness ==
  /\ Cardinality(Targeted) = 2
  /\ Cardinality(DOMAIN towTrucks) = 2
  /\ \A c \in Targeted : cars[c].stuck

\* The tow truck of the step has used up its outbound route and its car
\* is still in the population, immobilized.
TowArrives ==
  /\ TowStep
  /\ getCurrentEdge(TowBefore) = NoEdge
  /\ ~TowBefore.returning
  /\ TowBefore.targetCarId \in DOMAIN lastOp.pre.cars
  /\ lastOp.pre.cars[TowBefore.targetCarId].stuck

\* C14: a tow truck that arrives while its car is still present and
\* immobilized becomes carrying and returning in that step, the car leaves
\* the population and the rescued count goes up by exactly one; and in every
\* state a carrying truck is returning and its car is not in the population.
C14_Rescue ==
  /\ TowArrives
       => /\ lastOp.id \in DOMAIN towTrucks
          /\ towTrucks[lastOp.id].hasCar
          /\ towTrucks[lastOp.id].returning
          /\ TowBefore.targetCarId \notin DOMAIN cars
          /\ DOMAIN cars = DOMAIN lastOp.pre.cars \ {TowBefore.targetCarId}
          /\ stats.rescued = lastOp.pre.stats.rescued + 1
          /\ stats.exited = lastOp.pre.stats.exited
  /\ \A t \in DOMAIN towTrucks :
       towTrucks[t].hasCar
         => (towTrucks[t].returning /\ towTrucks[t].targetCarId \notin DOMAIN cars)

C14_Witness ==
  /\ TowArrives
  /\ ~TowBefore.hasCar
  /\ towTrucks[lastOp.id].hasCar
  /\ stats.rescued = 1
  /\ TowBefore.targetCarId \notin DOMAIN cars

\* How far ahead of the stepping plow, in its direction of travel, the car c
\* stood before the step (negative: behind it).
AheadOfPlow(c) ==
  (IF lastOp.pre.cars[c].currentNodeId = PlowBefore.currentNodeId
   THEN lastOp.pre.cars[c].progress
   ELSE ProgScale - lastOp.pre.cars[c].progress) - PlowBefore.progress

\* The immobilized cars on the stepping plow's segment, ahead of it.
StuckAheadOfPlow ==
  {c \in DOMAIN lastOp.pre.cars :
     /\ lastOp.pre.cars[c].stuck
     /\ getCurrentEdge(lastOp.pre.cars[c]) = getCurrentEdge(PlowBefore)
     /\ AheadOfPlow(c) > 0}

PlowOnRoute == PlowStep /\ getCurrentEdge(PlowBefore) # NoEdge

\* The plow and every segment are as they were.
PlowHeld ==
  /\ plows[lastOp.id] = PlowBefore
  /\ network = lastOp.pre.network

\* The plow took the clearing rate times the elapsed time off its segment,
\* down to 0 at most, left the other segments alone, and advanced.
PlowWorked ==
  /\ network.edges[getCurrentEdge(PlowBefore)].snow
       = Max2(0, SnowBefore(getCurrentEdge(PlowBefore))
                   - (15 * SnowScale * delta) \div (1000 * TimeDen))
  /\ \A e \in DOMAIN network.edges \ {getCurrentEdge(PlowBefore)} :
       network.edges[e] = lastOp.pre.network.edges[e]
  /\ \/ /\ plows[lastOp.id].pathIndex = PlowBefore.pathIndex
        /\ plows[lastOp.id].currentNodeId = PlowBefore.currentNodeId
        /\ plows[lastOp.id].progress > PlowBefore.progress
     \/ /\ plows[lastOp.id].pathIndex = PlowBefore.pathIndex + 1
        /\ plows[lastOp.id].currentNodeId
             = getOtherNode(network.edges[getCurrentEdge(PlowBefore)],
                            PlowBefore.currentNodeId)
        /\ plows[lastOp.id].progress = 0

C15_WitnessFar ==
  /\ PlowOnRoute
  /\ StuckAheadOfPlow # {}
  /\ \A c \in StuckAheadOfPlow : AheadOfPlow(c) * 10 >= 3 * ProgScale
  /\ PlowWorked

\* C16: clearSnow by 0 leaves the network as it was, and accumulate by a
\* followed by clearSnow of a segment by a leaves that segment with the
\* accumulation it had before the accumulate.
C16_ClearUndoesAccumulate ==
  (env = "snow" /\ query.called)
    => /\ query.stage = "clearedNothing" => network = query.prior
       /\ query.stage = "cleared"
            => network.edges[query.edge].snow = query.prior.edges[query.edge].snow

\* A segment above the deep threshold is snowed on further and cleared by
\* the same amount.
C16_Witness ==
  /\ env = "snow" /\ query.called
  /\ query.stage = "cleared"
  /\ query.amount = 5 * SnowScale
  /\ query.edge = "v-cc-sc"
  /\ query.prior.edges[query.edge].snow = 9 * SnowScale + 600
  /\ network.edges[query.edge].snow = 9 * SnowScale + 600

\* The graph itself: locations, segments with their ends and obstruction
\* flags, and adjacency.
Layout(net) ==
  [nodes |-> net.nodes,
   adjacency |-> net.adjacency,
   edges |-> [e \in DOMAIN net.edges |->
                [from |-> net.edges[e].from, to |-> net.edges[e].to,
                 blocked |-> net.edges[e].blocked]]]

\* C17: only the update's snow step raises a segment's accumulation and only
\* a plow's step lowers it; car steps (exit, immobilization with its tow
\* dispatch, yield, re-route, move), tow-truck steps, road clicks and the
\* loop ends leave the whole network as it was; the spawn that is part of the
\* update's first step changes nothing but the snow layer's increase, the
\* same on every segment but depot-road; and no step changes the locations
\* or the segments.
C17_SnowFrame ==
  /\ lastOp.op \in {"car", "tow", "roadClicked", "endCars", "endPlows", "endTows"}
       => network = lastOp.pre.network
  /\ lastOp.op = "tick"
       => \A e, f \in DOMAIN network.edges :
            /\ network.edges[e].snow >= SnowBefore(e)
            /\ (e # "depot-road" /\ f # "depot-road")
                 => network.edges[e].snow - SnowBefore(e)
                      = network.edges[f].snow - SnowBefore(f)
  /\ PlowStep
       => \A e \in DOMAIN network.edges :
            /\ network.edges[e].snow <= SnowBefore(e)
            /\ e # getCurrentEdge(PlowBefore) => network.edges[e].snow = SnowBefore(e)
  /\ env \in Drivers => Layout(network) = Layout(createDefaultNetwork)

\* A car is immobilized and a tow truck is sent for it, on deep snow that
\* the step leaves as it was.
C17_Witness ==
  /\ FreeCarStep
  /\ cars[lastOp.id].stuck
  /\ DOMAIN towTrucks # DOMAIN lastOp.pre.towTrucks
  /\ SnowBefore(getCurrentEdge(CarBefore)) >= 9 * SnowScale
  /\ network = lastOp.pre.network

\* A car is spawned in a step whose snow increase is the snow layer's.
C17_WitnessSpawn ==
  /\ lastOp.op = "tick"
  /\ DOMAIN cars # DOMAIN lastOp.pre.cars
  /\ network.edges["ep-north"].snow > SnowBefore("ep-north")

\* The snow layer's increase for the update just begun: 0.3 per second
\* times the intensity (in tenths) of the phase current after the phase
\* timer was advanced, times the elapsed time.
TickIncrease ==
  (((3 * SnowScale) \div 10) * StormPhases[storm.index].intensity * delta)
    \div (10 * 1000 * TimeDen)

\* C18: depot-road holds no snow in any state, and the first step of every
\* update raises every other segment by baseRate * intensity * elapsed time.
C18_DepotRoadExempt ==
  /\ env \in Drivers => network.edges["depot-road"].snow = 0
  /\ lastOp.op = "tick"
       => \A e \in DOMAIN network.edges \ {"depot-road"} :
            network.edges[e].snow = SnowBefore(e) + TickIncrease

\* A 41 s update runs into the second phase (intensity 2.0): 24.6 units on
\* every segment but depot-road.
C18_Witness ==
  /\ lastOp.op = "tick"
  /\ storm.index = 2
  /\ network.edges["ep-south"].snow = 24600
  /\ network.edges["depot-road"].snow = 0

\* A plow works on depot-road in a later update of a storm.
C18_WitnessPlow ==
  /\ PlowStep
  /\ getCurrentEdge(PlowBefore) = "depot-road"
  /\ network.edges["ep-south"].snow > 9 * SnowScale
  /\ network.edges["depot-road"].snow = 0

\* Where in update the last step began and where it ended.
Went(from, to) == lastOp.pre.pc = from /\ pc = to

\* C19: update runs the snow step and the spawn, then every car, then every
\* plow, then every tow truck, each loop to its end, and road clicks fall
\* between updates.  Every car update of a tick works on the network as the
\* tick's snow step left it: it lacks nothing of that tick's increase and
\* has none of that tick's clearing, which the next tick's snow step builds
\* on.  A free car whose segment the tick's increase lifted to 9 or above is
\* immobilized in that tick.
C19_TickOrder ==
  /\ lastOp.op = "tick"
       => /\ Went("idle", "cars")
          /\ Range(queue) = DOMAIN cars
          /\ lastOp.pre.network = log.tick.before
          /\ network = log.tick.after
          /\ \A e \in DOMAIN network.edges \ {"depot-road"} :
               log.tick.after.edges[e].snow > log.tick.before.edges[e].snow
  /\ CarStep
       => /\ Went("cars", "cars")
          /\ lastOp.pre.network = log.tick.after
          /\ plows = lastOp.pre.plows
  /\ lastOp.op = "endCars"
       => /\ Went("cars", "plows")
          /\ lastOp.pre.queue = <<>>
          /\ Range(queue) = DOMAIN plows
  /\ PlowStep
       => /\ Went("plows", "plows")
          /\ cars = lastOp.pre.cars
          /\ towTrucks = lastOp.pre.towTrucks
  /\ lastOp.op = "endPlows"
       => /\ Went("plows", "tows")
          /\ lastOp.pre.queue = <<>>
          /\ Range(queue) = DOMAIN towTrucks
  /\ TowStep
       => /\ Went("tows", "tows")
          /\ plows = lastOp.pre.plows
  /\ lastOp.op = "endTows" => (Went("tows", "idle") /\ lastOp.pre.queue = <<>>)
  /\ Clicked => Went("idle", "idle")
  /\ (/\ FreeCarStep
      /\ log.tick.before.edges[getCurrentEdge(CarBefore)].snow < 9 * SnowScale
      /\ log.tick.after.edges[getCurrentEdge(CarBefore)].snow >= 9 * SnowScale)
       => (lastOp.id \in DOMAIN cars /\ cars[lastOp.id].stuck)

\* A plow clears a segment from above 9 to below it in the very update in
\* which a car on that segment was immobilized.
C19_Witness ==
  /\ PlowStep
  /\ getCurrentEdge(PlowBefore) # NoEdge
  /\ SnowBefore(getCurrentEdge(PlowBefore)) >= 9 * SnowScale
  /\ network.edges[getCurrentEdge(PlowBefore)].snow < 9 * SnowScale
  /\ \E c \in DOMAIN cars :
       /\ getCurrentEdge(cars[c]) = getCurrentEdge(PlowBefore)
       /\ cars[c].stuck
       /\ cars[c].stuckTime = delta

\* A car is immobilized by the increase of the update it is updated in.
C19_WitnessSnowSeen ==
  /\ FreeCarStep
  /\ log.tick.before.edges[getCurrentEdge(CarBefore)].snow < 9 * SnowScale
  /\ log.tick.after.edges[getCurrentEdge(CarBefore)].snow >= 9 * SnowScale
  /\ cars[lastOp.id].stuck

\* The cars that are not immobilized and that the yield check would hold
\* where they are, and the car each of them is held by.
Yielders ==
  {c \in DOMAIN cars : ~cars[c].stuck /\ isBlockedByCarAhead(cars, cars[c]) # NoCar}

YieldsTo(c) == isBlockedByCarAhead(cars, cars[c])

\* No set of yielding cars holds itself.
NoYieldCycle ==
  \A S \in SUBSET Yielders : S # {} => \E c \in S : YieldsTo(c) \notin S

\* The immobilized cars ahead of car c in its lane on its segment.
StuckAhead(c) == {o \in getCarsAheadInLane(cars, cars[c]) : cars[o].stuck}

\* Between two updates car c is marked yielding, is not immobilized, has no
\* immobilized car ahead of it, and the session has three updates to come.
Held(c) ==
  /\ pc = "idle"
  /\ c \in DOMAIN cars
  /\ cars[c].waiting
  /\ ~cars[c].stuck
  /\ StuckAhead(c) = {}
  /\ ticks + 3 <= MaxTicksOf(env)

\* Car c has just moved on: further along its segment, onto the next one, or
\* out of the network at the end of its route.
MovedOn(c) ==
  /\ CarStep
  /\ lastOp.id = c
  /\ ~CarBefore.stuck
  /\ \/ c \notin DOMAIN cars
     \/ cars[c].pathIndex > CarBefore.pathIndex
     \/ cars[c].progress > CarBefore.progress

\* C20: no set of cars exists in which every car yields because of another
\* car of the set, and a car that is yielding between two updates, with no
\* immobilized car ahead of it in its lane on its segment, moves on in a
\* later update unless a car ahead of it is immobilized first.
C20_QueueingDeadlockFree ==
  /\ []NoYieldCycle
  /\ \A c \in 0..(MaxCars - 1) :
       Held(c) ~> (MovedOn(c) \/ (c \in DOMAIN cars /\ StuckAhead(c) # {}))

\* A car that was marked yielding behind a moving car moves on.
C20_Witness ==
  /\ MovedOn(lastOp.id)
  /\ CarBefore.waiting
  /\ ticks + 2 <= MaxTicksOf(env)
  /\ \A o \in DOMAIN lastOp.pre.cars : ~lastOp.pre.cars[o].stuck

\* The agents the clean-up that has just run destroyed.
PlowsDestroyed ==
  IF lastOp.op = "endPlows" THEN DOMAIN lastOp.pre.plows \ DOMAIN plows ELSE {}

TowTrucksDestroyed ==
  IF lastOp.op = "endTows" THEN DOMAIN lastOp.pre.towTrucks \ DOMAIN towTrucks ELSE {}

\* An agent ends at the depot with nothing left of its way home, or was given
\* up where it stood because the planner found no way home.
CameHomeOrGivenUp(agent) ==
  /\ agent.returning
  /\ getCurrentEdge(agent) = NoEdge
  /\ \/ agent.currentNodeId = "depot"
     \/ ~findPath(network, agent.currentNodeId, "depot", LegacyOptions(TRUE)).found

\* The session has twelve updates to come.
LongToGo == ticks + 12 <= MaxTicksOf(env)

\* C21: a plow or a tow truck is destroyed only when it is returning with
\* its route exhausted (home, or with no way home), and under repeated
\* updates with positive elapsed time every plow and every tow truck is
\* destroyed in the end, a plow halted behind an immobilized car included.
C21_AgentsDestroyed ==
  /\ [](/\ \A p \in PlowsDestroyed : CameHomeOrGivenUp(lastOp.pre.plows[p])
        /\ \A t \in TowTrucksDestroyed : CameHomeOrGivenUp(lastOp.pre.towTrucks[t]))
  /\ \A p \in 0..(MaxCommands - 1) :
       (p \in DOMAIN plows /\ LongToGo) ~> (p \notin DOMAIN plows)
  /\ \A t \in 0..(RescueCars - 1) :
       (t \in DOMAIN towTrucks /\ LongToGo) ~> (t \notin DOMAIN towTrucks)

\* A plow that was halted behind an immobilized car is destroyed at the depot,
\* after that car's tow truck was.
C21_Witness ==
  /\ \E p \in PlowsDestroyed :
       /\ p \in log.held
       /\ lastOp.pre.plows[p].currentNodeId = "depot"
  /\ stats.rescued > 0
  /\ \E t \in DOMAIN log.towTarget : t \notin DOMAIN towTrucks

\* C22: a plow whose returning flag is set when its update begins leaves
\* the accumulation of every segment as it was.
C22_PlowClearsOutboundOnly ==
  (PlowStep /\ PlowBefore.returning)
    => \A e \in DOMAIN network.edges : network.edges[e].snow = SnowBefore(e)

\* A returning plow is updated on a segment that carries snow.
C22_Witness ==
  /\ PlowStep
  /\ PlowBefore.returning
  /\ getCurrentEdge(PlowBefore) # NoEdge
  /\ SnowBefore(getCurrentEdge(PlowBefore)) > 0
  /\ ~blockedByStuckCar(lastOp.pre.cars, PlowBefore, getCurrentEdge(PlowBefore))

\* The cars the last step added to the population.
NewCars ==
  IF lastOp.op = "none" THEN DOMAIN cars ELSE DOMAIN cars \ DOMAIN lastOp.pre.cars

Termini == Range(endpoints)

\* The planner's answer, default policy, on the network the spawn saw.
SpawnRoute(from, to) == findPath(network, from, to, DefaultOptions)

\* The spawn attempt of the last step was due and the planner had no route,
\* or an empty one, for the termini drawn.
SpawnFailed ==
  /\ lastOp.op = "spawnCycle"
  /\ lastOp.due
  /\ \/ ~SpawnRoute(lastOp.draw[1], lastOp.draw[2]).found
     \/ SpawnRoute(lastOp.draw[1], lastOp.draw[2]).path = <<>>

\* C23: cars are added only by the spawn of an update, at most one per
\* update; a spawned car stands at a terminus, is bound for another terminus
\* and carries the planner's non-empty default-policy route between the two;
\* a spawn attempt for which the planner has no route adds no car and leaves
\* the population, the counters and the graph as they were.
C23_Spawn ==
  /\ lastOp.op \notin {"tick", "spawnCycle"} => NewCars = {}
  /\ Cardinality(NewCars) <= 1
  /\ \A c \in NewCars :
       /\ cars[c].currentNodeId \in Termini
       /\ cars[c].destinationNodeId \in Termini
       /\ cars[c].currentNodeId # cars[c].destinationNodeId
       /\ SpawnRoute(cars[c].currentNodeId, cars[c].destinationNodeId).found
       /\ cars[c].path = SpawnRoute(cars[c].currentNodeId, cars[c].destinationNodeId).path
       /\ cars[c].path # <<>>
       /\ WalkEnd(network, cars[c].currentNodeId, cars[c].path) = cars[c].destinationNodeId
  /\ SpawnFailed
       => /\ cars = lastOp.pre.cars
          /\ nextCarId = lastOp.pre.nextCarId
          /\ stats = lastOp.pre.stats
          /\ network = lastOp.pre.network

\* A spawn attempt finds no route from an obstructed terminus, after an
\* earlier one put a car on the road.
C23_Witness ==
  /\ SpawnFailed
  /\ cars # EmptyFcn

\* A car is spawned between two termini.
C23_WitnessSpawned ==
  /\ lastOp.op = "spawnCycle"
  /\ NewCars # {}
  /\ \E e \in DOMAIN network.edges : network.edges[e].blocked

\* The locations the graph or its index knows of.
Locations(net) ==
  DOMAIN net.nodes \cup DOMAIN net.adjacency
    \cup {net.edges[e].from : e \in DOMAIN net.edges}
    \cup {net.edges[e].to : e \in DOMAIN net.edges}

\* C24: in every state the adjacency index lists a segment under a location
\* exactly when the location is the segment's from or to end, and every id
\* the index lists is the id of a segment.
C24_AdjacencyConsistent ==
  /\ \A n \in Locations(network), e \in DOMAIN network.edges :
       e \in Range(AdjacencyOf(network, n))
         <=> (n = network.edges[e].from \/ n = network.edges[e].to)
  /\ \A n \in DOMAIN network.adjacency :
       Range(network.adjacency[n]) \subseteq DOMAIN network.edges

\* The game has run: snow lies on the default network, a car has left it,
\* and the centre still has its eight segments.
C24_Witness ==
  /\ ticks >= 2
  /\ stats.exited + stats.rescued >= 1
  /\ \E e \in DOMAIN network.edges : network.edges[e].snow > 0
  /\ Len(AdjacencyOf(network, "CC")) = 8

\* The step was the update of a plow, or of a tow truck, that had come to
\* the end of its outbound route.
PlowReachedTarget ==
  PlowStep /\ ~PlowBefore.returning /\ getCurrentEdge(PlowBefore) = NoEdge

TowReachedTarget ==
  TowStep /\ ~TowBefore.returning /\ getCurrentEdge(TowBefore) = NoEdge

\* The planner's route home for the agent, obstruction and accumulation both
\* ignored, on the network the update saw.
HomeRoute(agent) ==
  findPath(lastOp.pre.network, agent.currentNodeId, "depot", IgnoreAll)

\* The agent id of the collection agents has adopted the route home, or has
\* been listed for deletion when there is none.
TurnedFor(agents, id, route) ==
  IF route.found
  THEN /\ id \in DOMAIN agents
       /\ agents[id].returning
       /\ agents[id].path = route.path
       /\ agents[id].pathIndex = 0
       /\ agents[id].progress = 0
  ELSE id \in Range(toRemove)

\* C25: an agent at the end of its outbound route adopts the planner's route
\* from where it stands to the depot under the policy that ignores both
\* obstruction and accumulation, and is deleted in that update when the
\* planner has none.
C25_ReturnRouteIgnoresAll ==
  /\ PlowReachedTarget => TurnedFor(plows, lastOp.id, HomeRoute(PlowBefore))
  /\ TowReachedTarget => TurnedFor(towTrucks, lastOp.id, HomeRoute(TowBefore))

\* The planner's route home under the legacy boolean option, which ignores
\* obstruction and counts accumulation.
HomeRouteLegacy(agent) ==
  findPath(lastOp.pre.network, agent.currentNodeId, "depot",
           [ignoreBlocked |-> TRUE, ignoreSnow |-> FALSE])

\* C25, amended: the route adopted is the planner's under the policy that
\* ignores obstruction only, so that it can depend on accumulation; the
\* agent is deleted in that update when the planner has none.
C25_ReturnRouteIgnoresObstruction ==
  /\ PlowReachedTarget => TurnedFor(plows, lastOp.id, HomeRouteLegacy(PlowBefore))
  /\ TowReachedTarget => TurnedFor(towTrucks, lastOp.id, HomeRouteLegacy(TowBefore))

\* A plow turned for home along the segments it had cleared, where the
\* route that ignores accumulation is another one.
C25_Witness ==
  /\ PlowReachedTarget
  /\ lastOp.id \in DOMAIN plows
  /\ plows[lastOp.id].path = HomeRouteLegacy(PlowBefore).path
  /\ plows[lastOp.id].path # HomeRoute(PlowBefore).path

\* A tow truck turned for home with its car.
C25_WitnessTow ==
  /\ TowReachedTarget
  /\ towTrucks[lastOp.id].hasCar

\* The click of the last step created a plow.
PlowCreated == Clicked /\ nextPlowId > lastOp.pre.nextPlowId

NewPlow == plows[lastOp.pre.nextPlowId]

\* The planner's route from the depot to a location, obstruction and
\* accumulation ignored, on the network the click saw.
FromDepot(node) == findPath(lastOp.pre.network, "depot", node, IgnoreAll)

\* The locations one segment away from a location of the set.
Neighbours(net, S) ==
  {getOtherNode(net.edges[e], n) : <<n, e>> \in
     {<<m, f>> \in S \X DOMAIN net.edges : f \in Range(AdjacencyOf(net, m))}}

\* The least number of segments of any walk from the set reached to goal.
RECURSIVE Hops(_, _, _, _)
Hops(net, reached, goal, n) ==
  IF goal \in reached THEN n
  ELSE IF Neighbours(net, reached) \subseteq reached THEN Unreached
  ELSE Hops(net, reached \cup Neighbours(net, reached), goal, n + 1)

\* The route is the approach from the depot to the end near of the target
\* segment, then the target; the planner's route to the other end, and any
\* walk to it, has at least as many segments as the approach.
ApproachesBy(route, target, near, other) ==
  /\ FromDepot(near).found
  /\ route = Append(FromDepot(near).path, target)
  /\ FromDepot(other).found => Len(FromDepot(near).path) <= Len(FromDepot(other).path)
  /\ Len(FromDepot(near).path) <= Hops(lastOp.pre.network, {"depot"}, other, 0)

\* C26: a plow just created carries the planner's route (obstruction and
\* accumulation ignored) from the depot to one end of the target segment and
\* then the target segment; no route from the depot to the other end has
\* fewer segments than that approach; the plow stands at the depot with
\* route index 0, progress 0 and returning false.
C26_OutboundRoute ==
  PlowCreated =>
    /\ \/ ApproachesBy(NewPlow.path, lastOp.edge,
                       lastOp.pre.network.edges[lastOp.edge].from,
                       lastOp.pre.network.edges[lastOp.edge].to)
       \/ ApproachesBy(NewPlow.path, lastOp.edge,
                       lastOp.pre.network.edges[lastOp.edge].to,
                       lastOp.pre.network.edges[lastOp.edge].from)
    /\ NewPlow.path[Len(NewPlow.path)] = lastOp.edge
    /\ NewPlow.currentNodeId = "depot"
    /\ NewPlow.pathIndex = 0
    /\ NewPlow.progress = 0
    /\ ~NewPlow.returning

\* A plow is sent to a segment whose ends are not equally far from the depot,
\* with snow on the network.
C26_Witness ==
  /\ PlowCreated
  /\ Len(FromDepot(network.edges[lastOp.edge].from).path)
       # Len(FromDepot(network.edges[lastOp.edge].to).path)
  /\ Len(NewPlow.path) >= 3
  /\ \E e \in DOMAIN network.edges : network.edges[e].snow > 0

\* The step was a car update that changed the car's route.
Rerouted ==
  /\ CarStep
  /\ lastOp.id \in DOMAIN cars
  /\ cars[lastOp.id].path # CarBefore.path

\* Twice the cost of a segment: 1 + 0.5 * accumulation, and 100 more when it
\* is obstructed.
RerouteSegmentCost(net, e) ==
  2 * SnowScale + net.edges[e].snow + (IF net.edges[e].blocked THEN 200 * SnowScale ELSE 0)

\* Twice the cost of the first n segments of a route.
RECURSIVE CostOf(_, _, _)
CostOf(net, path, n) ==
  IF n = 0 THEN 0 ELSE CostOf(net, path, n - 1) + RerouteSegmentCost(net, path[n])

\* What is left of the car's route, from its current segment on.
Remaining(car) == SubSeq(car.path, car.pathIndex + 1, Len(car.path))

\* The car update of the step got as far as tryReroute, and the countdown ran
\* out there: the car had a segment, was neither immobilized nor made to
\* yield, and its countdown stood at 1.
CheckRan ==
  /\ FreeCarStep
  /\ lastOp.id \in DOMAIN cars
  /\ ~cars[lastOp.id].stuck
  /\ ~cars[lastOp.id].waiting
  /\ CarBefore.rerouteCheckTimer <= 1

\* The car as its update leaves it when the re-route attempt changes the
\* countdown only.
MovedOnly ==
  movedCar(lastOp.pre.network, getCurrentEdge(CarBefore),
           [CarBefore EXCEPT !.waiting = FALSE, !.rerouteCheckTimer = 60], delta)

\* C27: a car update replaces the car's route only by a route whose cost on
\* the graph of that tick is strictly less than 80 % of the cost of what was
\* left of the old route; a re-planning check that does not replace the
\* route leaves route, route index and progress to the movement alone.
C27_Hysteresis ==
  /\ Rerouted
       => 10 * CostOf(lastOp.pre.network, cars[lastOp.id].path, Len(cars[lastOp.id].path))
            < 8 * CostOf(lastOp.pre.network, Remaining(CarBefore), Len(Remaining(CarBefore)))
  /\ (CheckRan /\ ~Rerouted) => cars[lastOp.id] = MovedOnly

\* A car at a corner takes the plowed way round the deep snow ahead.
C27_Witness ==
  /\ Rerouted
  /\ CheckRan
  /\ Len(cars[lastOp.id].path) = Len(Remaining(CarBefore))

\* A check on a segment with more than 8 units finds no route cheap enough.
C27_WitnessKept ==
  /\ CheckRan
  /\ ~Rerouted
  /\ CarBefore.progress <= ProgScale \div 10
  /\ SnowBefore(getCurrentEdge(CarBefore)) > 8 * SnowScale

\* The car update of the step got as far as tryReroute: the car had a
\* segment and was neither immobilized nor made to yield.
RerouteTried ==
  /\ FreeCarStep
  /\ lastOp.id \in DOMAIN cars
  /\ ~cars[lastOp.id].stuck
  /\ ~cars[lastOp.id].waiting

\* The car as its update leaves it when the re-route attempt only counts down.
CountedDown ==
  movedCar(lastOp.pre.network, getCurrentEdge(CarBefore),
           [CarBefore EXCEPT !.waiting = FALSE,
                             !.rerouteCheckTimer =
                                IF CarBefore.rerouteCheckTimer <= 1 THEN 60
                                ELSE CarBefore.rerouteCheckTimer - 1], delta)

\* The segment the car was on had accumulation above 8 or was obstructed.
BadSegmentBefore ==
  \/ SnowBefore(getCurrentEdge(CarBefore)) > 8 * SnowScale
  \/ lastOp.pre.network.edges[getCurrentEdge(CarBefore)].blocked

C28_WitnessRerouted ==
  /\ Rerouted
  /\ CarBefore.progress = 0
  /\ CarBefore.rerouteCheckTimer = 1

\* The cars whose update has called tryReroute at least once.
Tried == DOMAIN log.tried

\* C29 as stated: the number of re-planning checks a moving car gets depends
\* on the elapsed time its updates delivered and not on how many updates
\* delivered it, so that of two cars the one that has moved for no longer has
\* had no more checks.
C29_TickRateIndependent ==
  \A a, b \in Tried :
    log.tried[a].elapsed <= log.tried[b].elapsed
      => log.tried[a].checks <= log.tried[b].checks

\* C29, amended: the countdown counts the calls of tryReroute, one per update
\* of a moving car, whatever elapsed time they deliver: a car has had one
\* check for every 60 calls, and after a check the countdown stands at 60
\* again.
C29_CountsUpdates ==
  /\ \A c \in Tried : log.tried[c].checks = log.tried[c].calls \div 60
  /\ \A c \in DOMAIN cars :
       cars[c].rerouteCheckTimer
         = IF c \in Tried THEN 60 - (log.tried[c].calls % 60) ELSE 60

\* A car has had its first check after 60 updates that delivered under 3 s,
\* while an older car has had none in updates that delivered over 10 s.
C29_Witness ==
  \E a, b \in Tried :
    /\ log.tried[a].checks = 1
    /\ log.tried[a].calls = 60
    /\ log.tried[a].elapsed < 3000 * TimeDen
    /\ a \in DOMAIN cars /\ cars[a].rerouteCheckTimer = 60
    /\ log.tried[b].checks = 0
    /\ log.tried[b].elapsed > 10000 * TimeDen

\* The step was the update of a car that was immobilized when it began.
StuckCarStep == CarStep /\ CarBefore.stuck

\* C30: the update of an immobilized car leaves its route, route index,
\* progress, current location, destination and re-route countdown as they
\* were and its yielding flag false; its immobilized time grows by the
\* elapsed time of the tick, and nothing else of the car changes.
C30_StuckCarFrame ==
  StuckCarStep =>
    /\ lastOp.id \in DOMAIN cars
    /\ cars[lastOp.id].path = CarBefore.path
    /\ cars[lastOp.id].pathIndex = CarBefore.pathIndex
    /\ cars[lastOp.id].progress = CarBefore.progress
    /\ cars[lastOp.id].currentNodeId = CarBefore.currentNodeId
    /\ cars[lastOp.id].destinationNodeId = CarBefore.destinationNodeId
    /\ cars[lastOp.id].rerouteCheckTimer = CarBefore.rerouteCheckTimer
    /\ ~cars[lastOp.id].waiting
    /\ cars[lastOp.id].stuckTime = CarBefore.stuckTime + delta
    /\ cars[lastOp.id] = [CarBefore EXCEPT !.stuckTime = @ + delta, !.waiting = FALSE]

\* A car that has been immobilized for a while, part of the way along its
\* segment, is updated once more.
C30_Witness ==
  /\ StuckCarStep
  /\ CarBefore.stuckTime > 0
  /\ CarBefore.progress > 0
  /\ delta > 0
  /\ cars[lastOp.id].stuckTime > CarBefore.stuckTime

\* The update of the step found the truck's target gone or not stuck.
TurnedBackEmpty == TowStep /\ targetLost(lastOp.pre.cars, TowBefore)

C31_Witness ==
  /\ TurnedBackEmpty
  /\ getCurrentEdge(TowBefore) = NoEdge

C31_WitnessOnTheWay ==
  /\ TurnedBackEmpty
  /\ getCurrentEdge(TowBefore) # NoEdge

\* The agent has arrived back at the depot.
ArrivedHome(agent) ==
  /\ agent.returning
  /\ getCurrentEdge(agent) = NoEdge
  /\ agent.currentNodeId = "depot"

\* The planner has a route home from where the agent stands.
HasWayHome(agent) ==
  findPath(network, agent.currentNodeId, "depot", LegacyOptions(TRUE)).found

\* C32: a plow or a tow truck is destroyed only on arrival back at the depot
\* or when no route home exists; none is destroyed at another location
\* from which a route home exists.
C32_DestroyedOnlyAtDepot ==
  /\ \A p \in PlowsDestroyed :
       /\ ArrivedHome(lastOp.pre.plows[p]) \/ ~HasWayHome(lastOp.pre.plows[p])
       /\ ~(lastOp.pre.plows[p].currentNodeId # "depot"
              /\ HasWayHome(lastOp.pre.plows[p]))
  /\ \A t \in TowTrucksDestroyed :
       /\ ArrivedHome(lastOp.pre.towTrucks[t]) \/ ~HasWayHome(lastOp.pre.towTrucks[t])
       /\ ~(lastOp.pre.towTrucks[t].currentNodeId # "depot"
              /\ HasWayHome(lastOp.pre.towTrucks[t]))

\* A tow truck that carried a car home is destroyed at the depot.
C32_Witness ==
  \E t \in TowTrucksDestroyed :
    /\ lastOp.pre.towTrucks[t].hasCar
    /\ ArrivedHome(lastOp.pre.towTrucks[t])

\* A plow is destroyed at the depot.
C32_WitnessPlow ==
  \E p \in PlowsDestroyed : ArrivedHome(lastOp.pre.plows[p])

\* The click asked for a plow with no cooldown running and the planner had
\* no route from the depot to either end of the segment.
PlowUnroutable ==
  /\ Clicked
  /\ lastOp.pre.plowCooldown <= 0
  /\ ~findPath(lastOp.pre.network, "depot",
               lastOp.pre.network.edges[lastOp.edge].from, IgnoreAll).found
  /\ ~findPath(lastOp.pre.network, "depot",
               lastOp.pre.network.edges[lastOp.edge].to, IgnoreAll).found

\* The car of the step became immobilized, no truck was on its way to it, and
\* the planner had no route from the depot to either end of its segment.
TowUnroutable ==
  /\ CarStep
  /\ lastOp.id \in DOMAIN cars
  /\ ~CarBefore.stuck /\ cars[lastOp.id].stuck
  /\ \A t \in DOMAIN lastOp.pre.towTrucks :
       lastOp.pre.towTrucks[t].targetCarId # lastOp.id
  /\ ~findPath(lastOp.pre.network, "depot",
               lastOp.pre.network.edges[getCurrentEdge(CarBefore)].from,
               IgnoreAll).found
  /\ ~findPath(lastOp.pre.network, "depot",
               lastOp.pre.network.edges[getCurrentEdge(CarBefore)].to,
               IgnoreAll).found

\* C33: a request for a plow or for a tow truck for which the planner has no
\* route to either end of the target segment creates no agent, leaves the
\* plow cooldown as it was, and leaves the graph, the car population and
\* the counters unchanged.
C33_NoRouteNoAgent ==
  /\ PlowUnroutable
       => /\ plows = lastOp.pre.plows
          /\ nextPlowId = lastOp.pre.nextPlowId
          /\ plowCooldown = lastOp.pre.plowCooldown
          /\ towTrucks = lastOp.pre.towTrucks
          /\ network = lastOp.pre.network
          /\ cars = lastOp.pre.cars
          /\ stats = lastOp.pre.stats
  /\ TowUnroutable
       => /\ towTrucks = lastOp.pre.towTrucks
          /\ nextTowTruckId = lastOp.pre.nextTowTruckId
          /\ plows = lastOp.pre.plows
          /\ plowCooldown = lastOp.pre.plowCooldown
          /\ network = lastOp.pre.network
          /\ DOMAIN cars = DOMAIN lastOp.pre.cars
          /\ \A o \in DOMAIN cars \ {lastOp.id} : cars[o] = lastOp.pre.cars[o]
          /\ stats = lastOp.pre.stats

\* A plow is asked for on the network without depot-road.
C33_Witness == PlowUnroutable

\* A car sticks on the network without depot-road.
C33_WitnessTow == TowUnroutable

\* The start of the agent's current segment as the drawing code infers it.
InferredStart(agent) ==
  getPositionOnPath(network, agent.path, agent.pathIndex, agent.currentNodeId).fromNodeId

\* The inferred start is the agent's current location.
StartAgrees(agent) ==
  getCurrentEdge(agent) # NoEdge => InferredStart(agent) = agent.currentNodeId

\* C34: for every car, plow and tow truck with a segment left on its route,
\* the start of the current segment that getPositionOnPath infers is the
\* agent's current location.
C34_InferredStartIsLocation ==
  /\ \A c \in DOMAIN cars : StartAgrees(cars[c])
  /\ \A p \in DOMAIN plows : StartAgrees(plows[p])
  /\ \A t \in DOMAIN towTrucks : StartAgrees(towTrucks[t])

\* A car adopts another route and rolls over in the same update: it is on
\* the second segment of the new route.
Swerved ==
  /\ Rerouted
  /\ cars[lastOp.id].pathIndex = 1
  /\ getCurrentEdge(cars[lastOp.id]) # NoEdge

\* The car that swerved is drawn from a start that is not its location.
C34_Witness ==
  /\ Swerved
  /\ InferredStart(cars[lastOp.id]) # cars[lastOp.id].currentNodeId

\* A plow past the first segment of its route home is drawn from its location.
C34_WitnessPlow ==
  \E p \in DOMAIN plows :
    /\ plows[p].returning /\ plows[p].pathIndex > 0
    /\ getCurrentEdge(plows[p]) # NoEdge
    /\ InferredStart(plows[p]) = plows[p].currentNodeId

\* What is left of the car's route, from its route index on.
RestOfRoute(car) == SubSeq(car.path, car.pathIndex + 1, Len(car.path))

\* What is left of the route is a walk from the car's location to its
\* destination.
OnItsWay(car) ==
  WalkEnd(network, car.currentNodeId, RestOfRoute(car)) = car.destinationNodeId

\* The car of the step was removed as exited.
Exited ==
  /\ CarStep
  /\ lastOp.id \notin DOMAIN cars
  /\ stats.exited = lastOp.pre.stats.exited + 1

\* C35: at the end of every tick what is left of every car's route is a
\* contiguous walk from the car's current location to its destination, and a
\* car removed as exited stood at its destination terminus.
C35_RouteFromLocation ==
  /\ pc = "idle" => \A c \in DOMAIN cars : OnItsWay(cars[c])
  /\ Exited => CarBefore.currentNodeId = CarBefore.destinationNodeId

\* At the end of the tick in which it adopted another route and rolled over,
\* the car stands at a location that is not on what is left of its route.
C35_Witness ==
  /\ pc = "idle"
  /\ \E c \in DOMAIN cars :
       /\ cars[c].pathIndex = 1
       /\ cars[c].path # <<"ep-west", "v-cw-sw", "h-sw-sc", "ep-south">>
       /\ ~OnItsWay(cars[c])

\* A car that kept its route is removed as exited at its destination.
C35_WitnessExited ==
  /\ Exited
  /\ CarBefore.currentNodeId = CarBefore.destinationNodeId

\* Progress is in [0, 1) and the route index within the route.
WithinRoute(agent) ==
  /\ 0 <= agent.progress /\ agent.progress < ProgScale
  /\ 0 <= agent.pathIndex /\ agent.pathIndex <= Len(agent.path)

\* The update took the agent at most one segment on, and onto the very
\* start of the next segment when it did.
OneSegmentOn(before, after) ==
  /\ after.pathIndex <= before.pathIndex + 1
  /\ (after.path = before.path /\ after.pathIndex = before.pathIndex + 1)
       => after.progress = 0

\* Where the frame would have taken the agent on a segment without end.
Unbounded(before, speed10) ==
  Advanced(lastOp.pre.network, getCurrentEdge(before), before.progress, speed10, delta)

\* C36: at the end of every tick every car, plow and tow truck has progress
\* in [0, 1) and a route index between 0 and the length of its route; one
\* update takes an agent at most one segment on and drops the progress beyond
\* the end of the segment, however long the frame.
C36_OneSegmentPerTick ==
  /\ pc = "idle"
       => /\ \A c \in DOMAIN cars : WithinRoute(cars[c])
          /\ \A p \in DOMAIN plows : WithinRoute(plows[p])
          /\ \A t \in DOMAIN towTrucks : WithinRoute(towTrucks[t])
  /\ (CarStep /\ lastOp.id \in DOMAIN cars)
       => OneSegmentOn(CarBefore, cars[lastOp.id])
  /\ (PlowStep /\ lastOp.id \in DOMAIN plows)
       => OneSegmentOn(PlowBefore, plows[lastOp.id])
  /\ (TowStep /\ lastOp.id \in DOMAIN towTrucks)
       => OneSegmentOn(TowBefore, towTrucks[lastOp.id])

\* A plow is updated with a frame that covers more than two segments and is
\* at the start of the next segment after it.
C36_Witness ==
  /\ PlowStep
  /\ getCurrentEdge(PlowBefore) # NoEdge
  /\ Unbounded(PlowBefore, PlowBefore.speed * 10) >= 2 * ProgScale
  /\ plows[lastOp.id].pathIndex = PlowBefore.pathIndex + 1
  /\ plows[lastOp.id].progress = 0

\* The same for a car.
C36_WitnessCar ==
  /\ CarStep
  /\ lastOp.id \in DOMAIN cars
  /\ getCurrentEdge(CarBefore) # NoEdge
  /\ Unbounded(CarBefore, effectiveSpeed(network, getCurrentEdge(CarBefore),
                                         CarBefore.speed)) >= 2 * ProgScale
  /\ cars[lastOp.id].pathIndex = CarBefore.pathIndex + 1

\* C37: the cars ever spawned are those in the population, those counted as
\* exited and those counted as rescued; neither counter ever decreases; and
\* no identity is given twice: a car that joins the population has an
\* identity that was never given before.
C37_CarsConserved ==
  /\ nextCarId = Cardinality(DOMAIN cars) + stats.exited + stats.rescued
  /\ \A c \in DOMAIN cars : cars[c].id = c /\ c < nextCarId
  /\ lastOp.op # "none"
       => /\ stats.exited >= lastOp.pre.stats.exited
          /\ stats.rescued >= lastOp.pre.stats.rescued
          /\ nextCarId >= lastOp.pre.nextCarId
          /\ \A c \in NewCars : c >= lastOp.pre.nextCarId

\* A car has been rescued, cars are on the road and a car has just been
\* spawned.
C37_Witness ==
  /\ stats.rescued > 0
  /\ lastOp.op # "none"
  /\ NewCars # {}
  /\ Cardinality(DOMAIN cars) > 1

\* A car has exited, cars are on the road and a car has just been spawned.
C37_WitnessExited ==
  /\ stats.exited > 0
  /\ lastOp.op # "none"
  /\ NewCars # {}
  /\ Cardinality(DOMAIN cars) > 1

\* The cars that were immobilized before the step.
StuckBefore ==
  IF lastOp.op = "none" THEN {}
  ELSE {c \in DOMAIN lastOp.pre.cars : lastOp.pre.cars[c].stuck}

\* C38: no step of a tick clears a car's immobilized flag, whatever the snow
\* on its segment has become; an immobilized car leaves the population only
\* when a tow truck's update removes it and counts it as rescued.
C38_StuckIsAbsorbing ==
  \A c \in StuckBefore :
    IF c \in DOMAIN cars
    THEN cars[c].stuck
    ELSE /\ TowStep
         /\ TowBefore.targetCarId = c
         /\ stats.rescued = lastOp.pre.stats.rescued + 1

\* An immobilized car has just been updated on a segment that a plow has
\* brought below the deep threshold, and is still immobilized.
C38_Witness ==
  /\ CarStep
  /\ lastOp.id \in StuckBefore
  /\ ~inDeepSnow(network, getCurrentEdge(CarBefore))
  /\ cars[lastOp.id].stuck

\* An immobilized car is removed by its tow truck.
C38_WitnessTowed ==
  /\ TowStep
  /\ TowBefore.targetCarId \in StuckBefore
  /\ TowBefore.targetCarId \notin DOMAIN cars

\* The car of the step became immobilized in it.
BecameStuck ==
  /\ CarStep
  /\ lastOp.id \in DOMAIN cars
  /\ ~CarBefore.stuck
  /\ cars[lastOp.id].stuck

\* The car has been removed and counted as rescued.
Rescued(c) ==
  /\ c \notin DOMAIN cars
  /\ \E i \in 1..Len(log.rescued) : log.rescued[i] = c
  /\ stats.rescued >= 1

\* C39: a car that becomes immobilized has a tow truck targeting it created
\* in the same update (on the default network a route from the depot always
\* exists), and under repeated updates with positive elapsed time every
\* immobilized car is removed from the population and counted as rescued.
C39_StuckCarsRescued ==
  /\ [](BecameStuck
          => \E t \in DOMAIN towTrucks \ DOMAIN lastOp.pre.towTrucks :
               towTrucks[t].targetCarId = lastOp.id)
  /\ \A c \in 0..(RescueCars - 1) :
       (c \in DOMAIN cars /\ cars[c].stuck /\ LongToGo) ~> Rescued(c)

\* The second car to be rescued is picked up by the truck created for it.
C39_Witness ==
  /\ TowStep
  /\ Rescued(TowBefore.targetCarId)
  /\ lastOp.pre.cars[TowBefore.targetCarId].stuck
  /\ stats.rescued = 2

\* A car is immobilized with twelve updates of the session to come.
C39_WitnessStuck ==
  /\ LongToGo
  /\ \E c \in DOMAIN cars : cars[c].stuck /\ cars[c].pathIndex > 1

\* Before the step car a was strictly ahead of car b on the same segment in
\* the same direction, and after it both are still on that segment.
AheadOnSegment(a, b) ==
  /\ a # b
  /\ a \in DOMAIN lastOp.pre.cars /\ a \in DOMAIN cars
  /\ b \in DOMAIN lastOp.pre.cars /\ b \in DOMAIN cars
  /\ getCurrentEdge(lastOp.pre.cars[b]) # NoEdge
  /\ getCurrentEdge(lastOp.pre.cars[a]) = getCurrentEdge(lastOp.pre.cars[b])
  /\ lastOp.pre.cars[a].currentNodeId = lastOp.pre.cars[b].currentNodeId
  /\ lastOp.pre.cars[a].progress > lastOp.pre.cars[b].progress
  /\ getCurrentEdge(cars[a]) = getCurrentEdge(lastOp.pre.cars[a])
  /\ cars[a].currentNodeId = lastOp.pre.cars[a].currentNodeId
  /\ getCurrentEdge(cars[b]) = getCurrentEdge(lastOp.pre.cars[b])
  /\ cars[b].currentNodeId = lastOp.pre.cars[b].currentNodeId

\* C40: a car that is behind another on the same segment in the same
\* direction does not get ahead of it while both stay on the segment.
C40_LaneOrder ==
  CarStep =>
    \A a \in DOMAIN cars, b \in DOMAIN cars :
      AheadOnSegment(a, b) => cars[b].progress <= cars[a].progress

\* The car behind is updated with the car ahead more than the yielding
\* distance away and moves on the segment.
C40_Witness ==
  /\ CarStep
  /\ \E a \in DOMAIN cars :
       /\ AheadOnSegment(a, lastOp.id)
       /\ cars[lastOp.id].progress > CarBefore.progress

=============================================================================
